---- MODULE Spec2Model ----
(***************************************************************************)
(* Model of the Dummy-Backend ingestion service (src/app/main.py,          *)
(* src/app/models.py): the business-day resolver, the ledger append        *)
(* service and the ticket bulk-upsert orchestrator, each request running   *)
(* in its own SQLAlchemy session / database transaction.                   *)
(*                                                                         *)
(* Time is counted in seconds; a calendar date is a day number counted     *)
(* from 2026-01-15 (day 0), so 2026-01-16 is day 1 and 2026-03-07 is       *)
(* day 51 and 2026-10-31 is day 289.  An instant is the number of seconds   *)
(* since 2026-01-15T00:00Z.                                                *)
(***************************************************************************)
EXTENDS Integers, Sequences, FiniteSets, TLC

\* ------------------------------------------------------------------ bounds

\* Requests issued in one behaviour of the business-day specifications.
MaxCallsBD == 3

\* Requests issued in one behaviour of the ledger specifications.
MaxCallsLedger == 3

\* Requests issued in one behaviour of the ticket specifications.
MaxCallsTickets == 2

\* Requests begun in a run of the structured bulk upserts.
MaxCallsStructured == 2

\* Applications of _ledger_event_time in a run.
MaxCallsLedgerTime == 1

\* Requests begun in a run that mixes ledger appends and bulk upserts.
MaxCallsKeyspaces == 3

\* Requests begun in a run of the asset endpoint.
MaxCallsAssets == 3

\* Requests begun in a run of the source-system endpoints, and the pages a
\* client requests in one walk of the list.
MaxCallsSourceSystems == 3
MaxPageRequests == 4

\* Requests begun in a run of the whole service.
MaxCallsService == 2

\* Requests begun in a run of the item-external-key endpoint.
MaxCallsItemKeys == 3

\* ------------------------------------------------------- program constants

\* timedelta(days=1)
SecondsPerDay == 86400

\* Optional[int] = None: autoincrement ids start at 1, so 0 stands for None.
NoId == 0

\* time(5, 0), the default cutover
DefaultCutover == 5 * 3600

\* ------------------------------------------------- time and calendar utility

\* time.fromisoformat("HH:MM"): a time string is modelled as <<HH, MM>>.
_parse_time(value) == value[1] * 3600 + value[2] * 60

\* The instant at which America/New_York switches from EST to EDT in 2026:
\* 2026-03-08T07:00:00Z (day 52).
NewYorkDstStart == 52 * SecondsPerDay + 7 * 3600

\* The instant at which America/New_York switches back from EDT to EST in
\* 2026: 2026-11-01T06:00:00Z (day 290).
NewYorkDstEnd == 290 * SecondsPerDay + 6 * 3600

\* ZoneInfo(name).utcoffset of an instant given in UTC.
UtcOffsetAt(tz, utc) ==
    CASE tz = "Asia/Karachi" -> 5 * 3600
      [] tz = "America/New_York" ->
            IF NewYorkDstStart <= utc /\ utc < NewYorkDstEnd
            THEN -(4 * 3600) ELSE -(5 * 3600)
      [] OTHER -> 0

\* ZoneInfo(name).utcoffset of a wall-clock time with fold=0: a wall time in
\* the gap of a spring-forward transition keeps the offset before it, and a
\* wall time that occurs twice at the fall-back transition is the first one.
UtcOffsetOfWall(tz, wall) ==
    CASE tz = "Asia/Karachi" -> 5 * 3600
      [] tz = "America/New_York" ->
            IF /\ NewYorkDstStart - 4 * 3600 <= wall
               /\ wall < NewYorkDstEnd - 4 * 3600
            THEN -(4 * 3600) ELSE -(5 * 3600)
      [] OTHER -> 0

\* at.astimezone(tz): the wall-clock reading of an instant in tz.
AsTimezoneKeepsUtcMutant(utc, tz) == utc

AsTimezone(utc, tz) == utc + UtcOffsetAt(tz, utc)

\* datetime.date() and datetime.time() of a wall-clock reading.
DateOf(wall) == wall \div SecondsPerDay
TimeOf(wall) == wall % SecondsPerDay

\* An aware datetime as isoformat() prints it: wall clock plus UTC offset.
Aware(wall, tz) == [wall |-> wall, utcoffset |-> UtcOffsetOfWall(tz, wall)]

\* The instant an aware datetime denotes (what a timestamptz column stores).
InstantOf(dt) == dt.wall - dt.utcoffset

\* _business_day_bounds: datetime.combine(target_date, cutover, tzinfo=tz),
\* then wall-clock arithmetic + 1 day - 1 second on the aware value.
BoundsFullDayMutant(target_date, tz, cutover) ==
    LET startWall == target_date * SecondsPerDay + cutover
    IN  <<Aware(startWall, tz), Aware(startWall + SecondsPerDay, tz)>>

_business_day_bounds(target_date, tz, cutover) ==
    LET startWall == target_date * SecondsPerDay + cutover
    IN  <<Aware(startWall, tz), Aware(startWall + SecondsPerDay - 1, tz)>>

\* resolve_business_day, lines 584-586: the local date, minus one day when
\* the local time of day is before the cutover.
BusinessDateLeMutant(local_at, cutover_time) ==
    IF TimeOf(local_at) <= cutover_time
    THEN DateOf(local_at) - 1
    ELSE DateOf(local_at)

BusinessDateOf(local_at, cutover_time) ==
    IF TimeOf(local_at) < cutover_time
    THEN DateOf(local_at) - 1
    ELSE DateOf(local_at)

\* ------------------------------------------------------------ reference data

\* The Location rows present (creating locations is plain CRUD, not modelled).
LocationRows ==
    { [id |-> 1, tenant_id |-> 1, timezone |-> "Asia/Karachi"],
      [id |-> 2, tenant_id |-> 1, timezone |-> "America/New_York"] }

\* The ChannelMapping and ItemExternalKey rows present.
ChannelMappingRows ==
    { [id |-> 7, tenant_id |-> 1, provider |-> "pos_square",
       source_channel_code |-> "DINEIN"] }

ItemExternalKeyRows ==
    { [tenant_id |-> 1, item_id |-> 11, source_system_id |-> 1,
       external_item_key |-> "SQ-ITEM-1"] }

\* The Employee rows present (create_employee is plain CRUD, not modelled).
EmployeeRows ==
    { [id |-> 55, tenant_id |-> 1, location_id |-> 1,
       external_key |-> "POS-EMP-12"] }

\* db.get(Location, location_id): the set holding the row, or the empty set.
GetLocation(location_id) == {l \in LocationRows : l.id = location_id}

\* ------------------------------------------------------------------- state

VARIABLES
    businessDays,   \* committed BusinessDay rows
    locationHours,  \* committed LocationHours rows
    ledger,         \* committed LedgerEvent rows
    tickets,        \* committed Ticket rows
    ticketChildren, \* committed TicketLineItem, TicketPayment, TicketDiscount,
                    \* TicketVoid and TicketRefund rows
    eventMap,       \* committed IngestionEventMap rows
    entities,       \* committed OpenCloseSignal, PosDowntimeEvent, LaborPunch,
                    \* Payout and StockoutEvent rows
    itemExternalKeys, \* committed ItemExternalKey rows
    assets,         \* committed Asset rows
    sourceSystems,  \* committed SourceSystem rows
    pager,          \* a client that walks the pages of a list endpoint
    nextId,         \* per table, the next autoincrement id
    autoflush,      \* the autoflush setting of the session factory
    pending,        \* per worker, the rows added to its session, not yet flushed
    uncommitted,    \* per worker, the rows flushed into its open transaction
    pc,             \* per worker, where its request handler stands
    req,            \* per worker, the request it is handling
    lv,             \* per worker, the local variables of its handler
    last,           \* the response of the request that completed last
    calls           \* number of requests begun

vars == <<businessDays, locationHours, ledger, tickets, ticketChildren, eventMap,
          entities, itemExternalKeys, assets, sourceSystems, pager, nextId,
          autoflush, pending, uncommitted, pc, req, lv, last, calls>>

\* The tables the ingestion paths write, and the session state of the workers.
ingestTables == <<ledger, tickets, ticketChildren, eventMap>>
sessions == <<autoflush, pending, uncommitted, lv>>

\* The tables of the asset and source-system endpoints, and the paging client.
adminState == <<assets, sourceSystems, pager>>

\* The tables that only the structured upserts, the item-key endpoint and the
\* asset and source-system endpoints write.
otherTables == <<entities, itemExternalKeys, adminState>>

Workers == {"w1", "w2"}

Idle == [op |-> "none"]

NoData == [none |-> TRUE]

\* No client is walking a list.
NoPager == [active |-> FALSE]

\* The tables with an autoincrement id.
Tables ==
    {"business_day", "ledger_event", "ticket", "ticket_line_item",
     "ticket_payment", "ticket_discount", "ticket_void", "ticket_refund",
     "ingestion_event_map", "open_close_signal", "pos_downtime_event",
     "labor_punch", "payout", "stockout_event", "asset", "source_system"}

\* sessionmaker(autoflush=...) of app.db.SessionLocal: either setting.
AutoflushSettings == BOOLEAN

Init ==
    /\ businessDays = {}
    /\ locationHours = {}
    /\ ledger = {}
    /\ tickets = {}
    /\ ticketChildren = {}
    /\ eventMap = {}
    /\ entities = {}
    /\ itemExternalKeys = ItemExternalKeyRows
    /\ assets = {}
    /\ sourceSystems = {}
    /\ pager = NoPager
    /\ nextId = [t \in Tables |-> 1]
    /\ autoflush \in AutoflushSettings
    /\ pending = [w \in Workers |-> <<>>]
    /\ uncommitted = [w \in Workers |-> {}]
    /\ pc = [w \in Workers |-> "idle"]
    /\ req = [w \in Workers |-> Idle]
    /\ lv = [w \in Workers |-> Idle]
    /\ last = [op |-> "none", status |-> 0, repeat |-> FALSE, prev |-> NoData]
    /\ calls = 0

\* A request may begin on an idle worker; in a sequential run only when no
\* other request is in flight.
CanBegin(w, sequential, maxCalls) ==
    /\ pc[w] = "idle"
    /\ calls < maxCalls
    /\ sequential => \A v \in Workers : pc[v] = "idle"

\* The handler of worker w returns response r.  The record of the last
\* response notes whether the request repeats the one completed just before
\* it (same operation, same arguments, answered 200) and, if so, what that
\* one returned.
Respond(w, r) ==
    /\ LET same == last.op = r.op /\ last.status = 200 /\ last.args = r.args
       IN  last' = [r EXCEPT !.repeat = same,
                             !.prev = IF same THEN last.data ELSE NoData]
    /\ pc' = [pc EXCEPT ![w] = "idle"]
    /\ req' = [req EXCEPT ![w] = Idle]

Response(op, args, status, data) ==
    [op |-> op, args |-> args, status |-> status, data |-> data,
     repeat |-> FALSE, prev |-> NoData]

\* db.commit(): the rows the transaction inserted join the table.  No
\* handler issues an UPDATE or a DELETE on BusinessDay, LedgerEvent or
\* IngestionEventMap, so the rows already there stay as they are.
CommittedReplacesMutant(table, rows) == IF rows = {} THEN table ELSE rows

Committed(table, rows) == table \cup rows

\* ------------------------------------------------------ business-day resolver

\* The cutover the handler uses: the first LocationHours row found for the
\* tenant and location, else 05:00 (lines 577-583, 630-636).
CutoverChoices(tenant_id, location_id) ==
    LET rows == {h \in locationHours :
                    h.tenant_id = tenant_id /\ h.location_id = location_id}
    IN  IF rows = {} THEN {DefaultCutover}
        ELSE {h.business_day_cutover_local : h \in rows}

\* The BusinessDay rows the lookup by (tenant, location, business_date) matches.
MatchingDaysNoneMutant(tenant_id, location_id, business_date) == {}

MatchingDays(tenant_id, location_id, business_date) ==
    {d \in businessDays : /\ d.tenant_id = tenant_id
                          /\ d.location_id = location_id
                          /\ d.business_date = business_date}

BusinessDayData(day_id, business_date, bounds, created) ==
    [business_day_id |-> day_id, business_date |-> business_date,
     starts_at |-> bounds[1], ends_at |-> bounds[2], created |-> created]

\* Lines 573 / 627: `if not location or location.tenant_id != tenant_id`.
LocationNotFoundAbsentOnlyMutant(found, tenant_id) == found = {}

LocationNotFound(found, tenant_id) ==
    found = {} \/ (\E l \in found : l.tenant_id # tenant_id)

\* Lines 572-593 / 626-643: location check, cutover, bounds, lookup of the
\* row.  .first() without ORDER BY returns any matching row.
BusinessDayLookup(w, op, args, tenant_id, location_id, dateOfLocal) ==
    LET found == GetLocation(location_id)
    IN  IF LocationNotFound(found, tenant_id)
        THEN /\ Respond(w, Response(op, args, 404, NoData))
             /\ UNCHANGED <<businessDays, locationHours, nextId>>
        ELSE \E location \in found :
             \E cutover_time \in CutoverChoices(tenant_id, location_id) :
             LET tz == location.timezone
                 business_date == dateOfLocal[tz, cutover_time]
                 bounds == _business_day_bounds(business_date, tz, cutover_time)
                 days == MatchingDays(tenant_id, location_id, business_date)
             IN  IF days = {}
                 THEN /\ pc' = [pc EXCEPT ![w] = "bd_insert"]
                      /\ req' = [req EXCEPT ![w] =
                                   [op |-> op, args |-> args,
                                    tenant_id |-> tenant_id,
                                    location_id |-> location_id,
                                    business_date |-> business_date,
                                    bounds |-> bounds]]
                      /\ UNCHANGED <<businessDays, locationHours, nextId, last>>
                 ELSE \E day \in days :
                      /\ Respond(w, Response(op, args, 200,
                            BusinessDayData(day.id, business_date, bounds, FALSE)))
                      /\ UNCHANGED <<businessDays, locationHours, nextId>>

\* GET /api/v1/business-days/resolve, up to the lookup of the row.
ResolveBusinessDay(w, sequential, maxCalls, targets, instants) ==
    /\ CanBegin(w, sequential, maxCalls)
    /\ calls' = calls + 1
    /\ UNCHANGED <<ingestTables, otherTables, sessions>>
    /\ \E t \in targets, at \in instants :
         BusinessDayLookup(w, "resolve",
            [tenant_id |-> t[1], location_id |-> t[2], at |-> at], t[1], t[2],
            [tz \in {l.timezone : l \in LocationRows},
             c \in {h.business_day_cutover_local : h \in locationHours}
                     \cup {DefaultCutover}
               |-> BusinessDateOf(AsTimezone(at, tz), c)])

\* POST /api/v1/business-days:ensure, up to the lookup of the row.
EnsureBusinessDay(w, sequential, maxCalls, targets, dates) ==
    /\ CanBegin(w, sequential, maxCalls)
    /\ calls' = calls + 1
    /\ UNCHANGED <<ingestTables, otherTables, sessions>>
    /\ \E t \in targets, business_date \in dates :
         BusinessDayLookup(w, "ensure",
            [tenant_id |-> t[1], location_id |-> t[2],
             business_date |-> business_date], t[1], t[2],
            [tz \in {l.timezone : l \in LocationRows},
             c \in {h.business_day_cutover_local : h \in locationHours}
                     \cup {DefaultCutover}
               |-> business_date])

\* Lines 594-603 / 644-653: db.add(day); db.commit(); db.refresh(day).
InsertBusinessDay(w) ==
    /\ pc[w] = "bd_insert"
    /\ LET r == req[w]
           day == [id |-> nextId["business_day"],
                   tenant_id |-> r.tenant_id,
                   location_id |-> r.location_id,
                   business_date |-> r.business_date,
                   starts_at |-> InstantOf(r.bounds[1]),
                   ends_at |-> InstantOf(r.bounds[2])]
       IN  /\ businessDays' = Committed(businessDays, {day})
           /\ nextId' = [nextId EXCEPT !["business_day"] = @ + 1]
           /\ Respond(w, Response(r.op, r.args, 200,
                 BusinessDayData(day.id, r.business_date, r.bounds, TRUE)))
    /\ UNCHANGED <<locationHours, calls, ingestTables, otherTables, sessions>>

\* PUT /api/v1/locations/{location_id}/hours: delete the rows of the tenant
\* and location, add one row per entry of hours, commit.
UpsertLocationHours(w, sequential, maxCalls, targets, cutovers, hourLists) ==
    /\ CanBegin(w, sequential, maxCalls)
    /\ calls' = calls + 1
    /\ \E t \in targets, c \in cutovers, hours \in hourLists :
         LET cutover == _parse_time(c)
             kept == {h \in locationHours :
                         ~(h.tenant_id = t[1] /\ h.location_id = t[2])}
             rows == {[tenant_id |-> t[1], location_id |-> t[2],
                       day_of_week |-> hours[i],
                       business_day_cutover_local |-> cutover] :
                         i \in DOMAIN hours}
         IN  /\ locationHours' = kept \cup rows
             /\ Respond(w, Response("hours",
                    [tenant_id |-> t[1], location_id |-> t[2]], 200, NoData))
    /\ UNCHANGED <<businessDays, nextId, ingestTables, otherTables, sessions>>

\* ------------------------------------------------- sessions and transactions

RowsOf(rows, table) == {r \in rows : r.table = table}

\* The unique index ix_ingestion_event_map_unique of IngestionEventMap.
MapKey(m) == <<m.tenant_id, m.source_system_id, m.source_event_id, m.entity_type>>

\* The index keys that open transactions of other workers hold.
HeldByOthers(w) ==
    {MapKey(m) : m \in UNION {RowsOf(uncommitted[v], "ingestion_event_map") :
                                v \in Workers \ {w}}}

\* Session.flush(): INSERT the pending rows in the order they were added,
\* each taking the next id of its table.  An IngestionEventMap row whose key
\* is committed or already in this transaction raises IntegrityError; one
\* whose key is held by another open transaction waits for that transaction.
RECURSIVE Flush(_, _, _, _)
Flush(rows, unc, ids, held) ==
    IF rows = <<>>
    THEN [status |-> "ok", uncommitted |-> unc, nextId |-> ids, row |-> NoData]
    ELSE LET r == Head(rows)
             isMap == r.table = "ingestion_event_map"
             taken == {MapKey(m) : m \in eventMap
                                     \cup RowsOf(unc, "ingestion_event_map")}
         IN  IF isMap /\ MapKey(r) \in taken
             THEN [status |-> "IntegrityError", uncommitted |-> unc,
                   nextId |-> ids, row |-> r]
             ELSE IF isMap /\ MapKey(r) \in held
             THEN [status |-> "blocked", uncommitted |-> unc, nextId |-> ids,
                   row |-> r]
             ELSE Flush(Tail(rows),
                        unc \cup {[r EXCEPT !.id = ids[r.table]]},
                        [ids EXCEPT ![r.table] = @ + 1], held)

FlushSession(w) == Flush(pending[w], uncommitted[w], nextId, HeldByOthers(w))

\* What a query of worker w runs against: with autoflush the session is
\* flushed first; without, pending rows stay invisible to the query.
BeforeQuery(w) ==
    IF autoflush
    THEN FlushSession(w) @@ [pending |-> <<>>]
    ELSE [status |-> "ok", uncommitted |-> uncommitted[w], nextId |-> nextId,
          row |-> NoData, pending |-> pending[w]]

\* db.close() of get_db on a session whose transaction was not committed:
\* the rows of the transaction that stay in the database.
KeptOnCloseAllMutant(rows) == rows

KeptOnClose(rows) == {}

\* The session of worker w ends: its handler's locals and rows are gone.
EndSession(w) ==
    /\ pending' = [pending EXCEPT ![w] = <<>>]
    /\ uncommitted' = [uncommitted EXCEPT ![w] = {}]
    /\ lv' = [lv EXCEPT ![w] = Idle]

\* ----------------------------------------------------- ledger append service

\* None as the value of an Optional[datetime] field of an event.
NoTime == -1

\* Lines 145-153: the fields tried after event_time, in this order.
LedgerTimeKeys ==
    <<"closed_at", "opened_at", "paid_at", "applied_at", "voided_at",
      "refunded_at", "occurred_at">>

\* `key in payload and payload[key] is not None`.
Populated(payload, key) == key \in DOMAIN payload /\ payload[key] # NoTime

\* _ledger_event_time, lines 142-156; `now` is what _now() returns.
LedgerEventTimeIgnoresOrderMutant(payload, now) ==
    IF Populated(payload, "event_time")
    THEN payload["event_time"]
    ELSE LET hits == {i \in DOMAIN LedgerTimeKeys :
                        Populated(payload, LedgerTimeKeys[i])}
         IN  IF hits = {} THEN now
             ELSE payload[LedgerTimeKeys[CHOOSE i \in hits :
                                            \A j \in hits : j <= i]]

_ledger_event_time(payload, now) ==
    IF Populated(payload, "event_time")
    THEN payload["event_time"]
    ELSE LET hits == {i \in DOMAIN LedgerTimeKeys :
                        Populated(payload, LedgerTimeKeys[i])}
         IN  IF hits = {} THEN now
             ELSE payload[LedgerTimeKeys[CHOOSE i \in hits :
                                            \A j \in hits : i <= j]]

\* Line 187 of _append_ledger_events: event_time = _ledger_event_time(event),
\* applied to one event dict at one server time.
LedgerEventTime(w, maxCalls, payloads, nows) ==
    /\ CanBegin(w, TRUE, maxCalls)
    /\ calls' = calls + 1
    /\ \E payload \in payloads, now \in nows :
         Respond(w, Response("ledger_event_time",
                             [payload |-> payload, now |-> now], 200,
                             [occurred_at |-> _ledger_event_time(payload, now)]))
    /\ UNCHANGED <<businessDays, locationHours, ingestTables, otherTables,
                   nextId, sessions>>

\* `if not source_event_id`: the key is absent, None or the empty string.
MissingSourceEventId(event) ==
    \/ "source_event_id" \notin DOMAIN event
    \/ event.source_event_id = ""

\* Lines 177-183: the LedgerEvent rows among `rows` with the dedup key.
LedgerMatches(rows, r, source_event_id) ==
    {e \in RowsOf(rows, "ledger_event") :
        /\ e.tenant_id = r.tenant_id
        /\ e.location_id = r.location_id
        /\ e.feed_type = r.feed_type
        /\ e.domain = r.domain
        /\ e.source_event_id = source_event_id}

\* The request body of a ledger append endpoint is valid: every event
\* carries a source_event_id string (class LedgerEvent and its siblings).
ValidLedgerEvents(events) ==
    \A i \in DOMAIN events : "source_event_id" \in DOMAIN events[i]

LedgerArgs(r) ==
    [tenant_id |-> r.tenant_id, location_id |-> r.location_id,
     feed_type |-> r.feed_type, domain |-> r.domain, events |-> r.events]

\* A ledger append endpoint: the body is validated (422 and nothing else
\* happens when it is not valid), the events are dumped to dicts and
\* _append_ledger_events is called: lines 169-171.
AppendLedgerEvents(w, sequential, maxCalls, scopes, batches) ==
    /\ CanBegin(w, sequential, maxCalls)
    /\ calls' = calls + 1
    /\ \E s \in scopes, events \in batches :
         LET r == [op |-> "ledger", tenant_id |-> s[1], location_id |-> s[2],
                   feed_type |-> s[3], domain |-> s[4], events |-> events,
                   txn |-> calls + 1]
         IN  IF ValidLedgerEvents(events)
             THEN /\ req' = [req EXCEPT ![w] = r]
                  /\ lv' = [lv EXCEPT ![w] =
                              [i |-> 1, inserted |-> 0, deduped |-> 0,
                               errors |-> <<>>]]
                  /\ pc' = [pc EXCEPT ![w] = "ledger_loop"]
                  /\ UNCHANGED last
             ELSE /\ Respond(w, Response("ledger", LedgerArgs(r), 422,
                                         [detail |-> "Field required"]))
                  /\ UNCHANGED lv
    /\ UNCHANGED <<businessDays, locationHours, ingestTables, nextId, otherTables, autoflush,
                   pending, uncommitted>>

\* What the module-level name LedgerEvent is bound to when a request runs:
\* line 23 imports the mapped class app.models.LedgerEvent, and the class
\* statement at line 4093 (the request schema of the generic append
\* endpoint) binds the same name again, so _append_ledger_events, which
\* looks the name up when it is called, gets the schema class.
LedgerEventImported == "app.models.LedgerEvent"

LedgerEventBinding == "app.main.LedgerEvent"

\* db.query(X) and X(...) as a row need a mapped class; with any other
\* class db.query raises sqlalchemy.exc.ArgumentError.
IsMappedClass(binding) == binding = "app.models.LedgerEvent"

\* An exception leaves _append_ledger_events: get_db closes the session,
\* the transaction is rolled back, the client gets a 500.  Nothing of the
\* request reaches IngestionEventMap, which the function never touches.
LedgerFailRecordsIdInMapMutant(w, error) ==
    /\ ledger' = ledger \cup RowsOf(KeptOnClose(uncommitted[w]), "ledger_event")
    /\ eventMap' = eventMap \cup
          {[table |-> "ingestion_event_map", id |-> NoId,
            tenant_id |-> req[w].tenant_id, source_system_id |-> 1,
            source_event_id |-> req[w].events[lv[w].i].source_event_id,
            entity_type |-> "ticket", entity_id |-> NoId,
            txn |-> req[w].txn]}
    /\ Respond(w, Response("ledger", LedgerArgs(req[w]), 500,
                           [error |-> error, txn |-> req[w].txn]))
    /\ EndSession(w)
    /\ UNCHANGED <<businessDays, locationHours, tickets, ticketChildren,
                   nextId, otherTables, autoflush, calls>>

LedgerFail(w, error) ==
    /\ ledger' = ledger \cup RowsOf(KeptOnClose(uncommitted[w]), "ledger_event")
    /\ Respond(w, Response("ledger", LedgerArgs(req[w]), 500,
                           [error |-> error, txn |-> req[w].txn]))
    /\ EndSession(w)
    /\ UNCHANGED <<businessDays, locationHours, tickets, ticketChildren,
                   eventMap, nextId, otherTables, autoflush, calls>>

\* One iteration of the loop over events, lines 172-201.
LedgerLoop(w) ==
    /\ pc[w] = "ledger_loop"
    /\ lv[w].i <= Len(req[w].events)
    /\ LET r == req[w]
           l == lv[w]
           event == r.events[l.i]
       IN  IF MissingSourceEventId(event)
           THEN /\ lv' = [lv EXCEPT ![w] =
                            [l EXCEPT !.errors = Append(@, "missing_source_event_id"),
                                      !.i = @ + 1]]
                /\ UNCHANGED <<pending, uncommitted, nextId>>
                /\ UNCHANGED <<businessDays, locationHours, ingestTables,
                               otherTables, autoflush, pc, req, last, calls>>
           ELSE IF ~ IsMappedClass(LedgerEventBinding)
           THEN LedgerFail(w, "ArgumentError")
           ELSE LET q == BeforeQuery(w)
                    exists == LedgerMatches(ledger \cup q.uncommitted, r,
                                            event.source_event_id) # {}
                    row == [table |-> "ledger_event", id |-> NoId,
                            tenant_id |-> r.tenant_id,
                            location_id |-> r.location_id,
                            feed_type |-> r.feed_type, domain |-> r.domain,
                            source_event_id |-> event.source_event_id,
                            txn |-> r.txn]
                IN  /\ q.status = "ok"
                    /\ uncommitted' = [uncommitted EXCEPT ![w] = q.uncommitted]
                    /\ nextId' = q.nextId
                    /\ IF exists
                       THEN /\ pending' = [pending EXCEPT ![w] = q.pending]
                            /\ lv' = [lv EXCEPT ![w] =
                                        [l EXCEPT !.deduped = @ + 1, !.i = @ + 1]]
                       ELSE /\ pending' = [pending EXCEPT ![w] =
                                             Append(q.pending, row)]
                            /\ lv' = [lv EXCEPT ![w] =
                                        [l EXCEPT !.inserted = @ + 1, !.i = @ + 1]]
                    /\ UNCHANGED <<businessDays, locationHours, ingestTables,
                                   otherTables, autoflush, pc, req, last, calls>>

\* db.commit() and the returned summary, lines 202-209.
LedgerCommit(w) ==
    /\ pc[w] = "ledger_loop"
    /\ lv[w].i > Len(req[w].events)
    /\ LET r == req[w]
           f == FlushSession(w)
           rows == RowsOf(f.uncommitted, "ledger_event")
       IN  /\ f.status = "ok"
           /\ ledger' = Committed(ledger, rows)
           /\ nextId' = f.nextId
           /\ Respond(w, Response("ledger", LedgerArgs(r), 200,
                 [accepted |-> TRUE, ledger |-> r.feed_type,
                  inserted |-> lv[w].inserted, deduped |-> lv[w].deduped,
                  errors |-> lv[w].errors,
                  created |-> {e.id : e \in rows}, txn |-> r.txn]))
    /\ EndSession(w)
    /\ UNCHANGED <<businessDays, locationHours, tickets, ticketChildren,
                   eventMap, otherTables, autoflush, calls>>

\* A database error or the death of the worker inside _append_ledger_events:
\* the exception leaves the handler, get_db closes the session and the open
\* transaction is rolled back; no summary is returned.
LedgerAbort(w) ==
    /\ pc[w] = "ledger_loop"
    /\ ledger' = ledger \cup RowsOf(KeptOnClose(uncommitted[w]), "ledger_event")
    /\ Respond(w, Response("ledger", LedgerArgs(req[w]), 0,
                           [error |-> "aborted", txn |-> req[w].txn]))
    /\ EndSession(w)
    /\ UNCHANGED <<businessDays, locationHours, tickets, ticketChildren,
                   eventMap, nextId, otherTables, autoflush, calls>>

\* ------------------------------------------------ ticket upsert orchestrator

\* The child inputs of a ticket in the order the handler walks them, each
\* with the table (and dedup-map entity_type) of its kind.
Tagged(children, table) ==
    [k \in DOMAIN children |-> [table |-> table, input |-> children[k]]]

Children(ticket_payload) ==
    Tagged(ticket_payload.line_items, "ticket_line_item")
      \o Tagged(ticket_payload.payments, "ticket_payment")
      \o Tagged(ticket_payload.discounts, "ticket_discount")
      \o Tagged(ticket_payload.voids, "ticket_void")
      \o Tagged(ticket_payload.refunds, "ticket_refund")

\* IngestionEventMap(...) as the handler builds it.
MapRow(r, source_event_id, entity_type, entity_id) ==
    [table |-> "ingestion_event_map", id |-> NoId, tenant_id |-> r.tenant_id,
     source_system_id |-> r.source_system_id,
     source_event_id |-> source_event_id, entity_type |-> entity_type,
     entity_id |-> entity_id, txn |-> r.txn]

\* Lines 967-972: the dedup-map rows among `rows` for the ticket.
TicketMappings(rows, r, source_event_id) ==
    {m \in RowsOf(rows, "ingestion_event_map") :
        /\ m.tenant_id = r.tenant_id
        /\ m.source_system_id = r.source_system_id
        /\ m.source_event_id = source_event_id
        /\ m.entity_type = "ticket"}

\* Lines 973-984: the rows the handler adds to the session for a ticket
\* that has a dedup-map entry: none, whatever the payload holds.
UpdatedBranchRewritesMutant(r, t, mapping) ==
    <<[table |-> "ticket", id |-> NoId, tenant_id |-> r.tenant_id,
       location_id |-> r.location_id, business_day_id |-> r.business_day_id,
       source_system_id |-> r.source_system_id, status |-> t.status,
       channel_id |-> NoId, txn |-> r.txn]>>

UpdatedBranchWrites(r, t, mapping) == <<>>

\* Line 978: the ticket_id an UPDATED result echoes.
UpdatedTicketIdRowIdMutant(mapping) == mapping.id

UpdatedTicketId(mapping) == mapping.entity_id

\* Lines 985-995: the channel id and the warnings of the channel block.
ResolveChannelNoWarningMutant(r, channel) ==
    [channel_id |-> NoId, warnings |-> <<>>]

ResolveChannel(r, channel) ==
    IF channel = NoData
    THEN [channel_id |-> NoId, warnings |-> <<>>]
    ELSE LET found == {c \in ChannelMappingRows :
                          /\ c.tenant_id = r.tenant_id
                          /\ c.provider = channel.provider
                          /\ c.source_channel_code = channel.source_channel_code}
         IN  IF found # {}
             THEN [channel_id |-> (CHOOSE c \in found : TRUE).id,
                   warnings |-> <<>>]
             ELSE [channel_id |-> NoId, warnings |-> <<"channel_not_mapped">>]

\* Lines 1016-1029: the item id, mapping status and warnings of a line item:
\* the outcomes the lookup can have.  The query has no ORDER BY, so .first()
\* may return any of the rows that match.
ResolveItemNoLookupMutant(r, line) ==
    {[item_id |-> line.item_id, mapping_status |-> "None", warnings |-> <<>>]}

ResolveItem(r, line) ==
    IF line.item_id = NoId /\ line.external_item_key # ""
    THEN LET found == {k \in itemExternalKeys :
                          /\ k.tenant_id = r.tenant_id
                          /\ k.source_system_id = r.source_system_id
                          /\ k.external_item_key = line.external_item_key}
         IN  IF found # {}
             THEN {[item_id |-> key_map.item_id,
                    mapping_status |-> "MAPPED_BY_EXTERNAL_ITEM_KEY",
                    warnings |-> <<>>] : key_map \in found}
             ELSE {[item_id |-> NoId, mapping_status |-> "UNMAPPED",
                    warnings |-> <<"item_not_mapped">>]}
    ELSE {[item_id |-> line.item_id, mapping_status |-> "None",
           warnings |-> <<>>]}

TicketArgs(r) ==
    [tenant_id |-> r.tenant_id, location_id |-> r.location_id,
     source_system_id |-> r.source_system_id,
     business_day_id |-> r.business_day_id, tickets |-> r.tickets]

\* POST /api/v1/ingest/pos/tickets:bulkUpsert, lines 961-964.
BulkUpsertTickets(w, sequential, maxCalls, scopes, batches) ==
    /\ CanBegin(w, sequential, maxCalls)
    /\ calls' = calls + 1
    /\ \E s \in scopes, batch \in batches :
         req' = [req EXCEPT ![w] =
                   [op |-> "tickets", tenant_id |-> s[1], location_id |-> s[2],
                    source_system_id |-> s[3], business_day_id |-> s[4],
                    tickets |-> batch, txn |-> calls + 1]]
    /\ lv' = [lv EXCEPT ![w] =
                [i |-> 1, j |-> 1, accepted |-> 0, updated |-> 0, rejected |-> 0,
                 results |-> <<>>, ticket_id |-> NoId, channel_id |-> NoId,
                 warnings |-> <<>>, resolved_line_items |-> <<>>]]
    /\ pc' = [pc EXCEPT ![w] = "tk_lookup"]
    /\ UNCHANGED <<businessDays, locationHours, ingestTables, nextId, otherTables, autoflush,
                   pending, uncommitted, last>>

\* The request of worker w fails with an unhandled exception: get_db closes
\* the session, the transaction is rolled back, the client gets a 500 (no
\* response, status 0, when the process itself died).
TicketsFail(w, error, row) ==
    LET kept == KeptOnClose(uncommitted[w])
    IN  /\ tickets' = tickets \cup RowsOf(kept, "ticket")
        /\ eventMap' = eventMap \cup RowsOf(kept, "ingestion_event_map")
        /\ ticketChildren' = ticketChildren
              \cup (kept \ (RowsOf(kept, "ticket")
                              \cup RowsOf(kept, "ingestion_event_map")))
        /\ Respond(w, Response("tickets", TicketArgs(req[w]),
              IF error = "crash" THEN 0 ELSE 500,
              [error |-> error, row |-> row, txn |-> req[w].txn,
               own |-> /\ row # NoData
                       /\ MapKey(row) \in {MapKey(m) :
                             m \in RowsOf(uncommitted[w], "ingestion_event_map")}]))
        /\ EndSession(w)
        /\ UNCHANGED <<businessDays, locationHours, ledger, otherTables, autoflush, calls>>

\* Lines 1145-1168 with the ticket left out of the accepted count.
TicketDoneUncountedMutant(w, l, pend) ==
    LET r == req[w]
        t == r.tickets[l.i]
    IN  /\ pending' = [pending EXCEPT ![w] =
              Append(pend, [table |-> "ingestion_event_map", id |-> NoId,
                            tenant_id |-> r.tenant_id,
                            source_system_id |-> r.source_system_id,
                            source_event_id |-> t.source_event_id,
                            entity_type |-> "ticket",
                            entity_id |-> l.ticket_id, txn |-> r.txn])]
        /\ lv' = [lv EXCEPT ![w] =
              [l EXCEPT !.i = @ + 1, !.j = 1,
                        !.results = Append(@,
                            [source_event_id |-> t.source_event_id,
                             ticket_id |-> l.ticket_id,
                             upsert_status |-> "UPSERTED",
                             resolved |->
                                [business_day_id |-> r.business_day_id,
                                 channel_id |-> l.channel_id,
                                 line_items |-> l.resolved_line_items],
                             warnings |-> l.warnings])]]
        /\ pc' = [pc EXCEPT ![w] = "tk_lookup"]

\* Lines 1145-1168: the ticket's own dedup-map entry is added last, the
\* ticket is counted and its result appended; the loop moves on.
TicketDone(w, l, pend) ==
    LET r == req[w]
        t == r.tickets[l.i]
    IN  /\ pending' = [pending EXCEPT ![w] =
              Append(pend, MapRow(r, t.source_event_id, "ticket", l.ticket_id))]
        /\ lv' = [lv EXCEPT ![w] =
              [l EXCEPT !.i = @ + 1, !.j = 1,
                        !.accepted = @ + 1,
                        !.results = Append(@,
                            [source_event_id |-> t.source_event_id,
                             ticket_id |-> l.ticket_id,
                             upsert_status |-> "UPSERTED",
                             resolved |->
                                [business_day_id |-> r.business_day_id,
                                 channel_id |-> l.channel_id,
                                 line_items |-> l.resolved_line_items],
                             warnings |-> l.warnings])]]
        /\ pc' = [pc EXCEPT ![w] = "tk_lookup"]

\* Lines 965-995: the dedup check of the next ticket and, for a new ticket,
\* the resolution of its channel.
TicketLookup(w) ==
    /\ pc[w] = "tk_lookup"
    /\ lv[w].i <= Len(req[w].tickets)
    /\ LET r == req[w]
           l == lv[w]
           t == r.tickets[l.i]
           q == BeforeQuery(w)
           mappings == TicketMappings(eventMap \cup q.uncommitted, r,
                                      t.source_event_id)
       IN  /\ q.status # "blocked"
           /\ IF q.status = "IntegrityError"
              THEN /\ TicketsFail(w, "IntegrityError", q.row)
                   /\ nextId' = q.nextId
              ELSE /\ uncommitted' = [uncommitted EXCEPT ![w] = q.uncommitted]
                   /\ nextId' = q.nextId
                   /\ IF mappings # {}
                      THEN \E mapping \in mappings :
                           /\ pending' = [pending EXCEPT ![w] =
                                q.pending \o UpdatedBranchWrites(r, t, mapping)]
                           /\ lv' = [lv EXCEPT ![w] =
                                [l EXCEPT !.i = @ + 1,
                                          !.updated = @ + 1,
                                          !.results = Append(@,
                                            [source_event_id |-> t.source_event_id,
                                             ticket_id |-> UpdatedTicketId(mapping),
                                             upsert_status |-> "UPDATED",
                                             resolved |-> NoData,
                                             warnings |-> <<>>])]]
                           /\ UNCHANGED pc
                      ELSE LET c == ResolveChannel(r, t.channel)
                           IN  /\ pending' = [pending EXCEPT ![w] = q.pending]
                               /\ lv' = [lv EXCEPT ![w] =
                                     [l EXCEPT !.channel_id = c.channel_id,
                                               !.warnings = c.warnings,
                                               !.resolved_line_items = <<>>,
                                               !.ticket_id = NoId]]
                               /\ pc' = [pc EXCEPT ![w] = "tk_create"]
                   /\ UNCHANGED <<businessDays, locationHours, ingestTables,
                                  otherTables, autoflush, req, last, calls>>

\* Lines 996-1013: db.add(ticket); db.flush().
TicketCreate(w) ==
    /\ pc[w] = "tk_create"
    /\ LET r == req[w]
           l == lv[w]
           t == r.tickets[l.i]
           ticket == [table |-> "ticket", id |-> NoId, tenant_id |-> r.tenant_id,
                      location_id |-> r.location_id,
                      business_day_id |-> r.business_day_id,
                      source_system_id |-> r.source_system_id,
                      status |-> t.status, channel_id |-> l.channel_id,
                      txn |-> r.txn]
           f == Flush(Append(pending[w], ticket), uncommitted[w], nextId,
                      HeldByOthers(w))
       IN  /\ f.status # "blocked"
           /\ nextId' = f.nextId
           /\ IF f.status = "IntegrityError"
              THEN TicketsFail(w, "IntegrityError", f.row)
              ELSE /\ uncommitted' = [uncommitted EXCEPT ![w] = f.uncommitted]
                   /\ IF Children(t) = <<>>
                      THEN TicketDone(w, [l EXCEPT !.ticket_id = nextId["ticket"]],
                                      <<>>)
                      ELSE /\ pending' = [pending EXCEPT ![w] = <<>>]
                           /\ lv' = [lv EXCEPT ![w] =
                                 [l EXCEPT !.ticket_id = nextId["ticket"],
                                           !.j = 1]]
                           /\ pc' = [pc EXCEPT ![w] = "tk_child"]
                   /\ UNCHANGED <<businessDays, locationHours, ingestTables,
                                  otherTables, autoflush, req, last, calls>>

\* Lines 1015-1144: one child of the ticket: db.add(child); db.flush();
\* db.add(IngestionEventMap(...)) under the child's entity type.
TicketChild(w) ==
    /\ pc[w] = "tk_child"
    /\ LET r == req[w]
           l == lv[w]
           t == r.tickets[l.i]
           child == Children(t)[l.j]
           isLine == child.table = "ticket_line_item"
           items == IF isLine THEN ResolveItem(r, child.input)
                    ELSE {[item_id |-> NoId, mapping_status |-> "None",
                           warnings |-> <<>>]}
       IN  \E item \in items :
       LET row == [table |-> child.table, id |-> NoId, tenant_id |-> r.tenant_id,
                   ticket_id |-> l.ticket_id, item_id |-> item.item_id,
                   txn |-> r.txn]
           f == Flush(Append(pending[w], row), uncommitted[w], nextId,
                      HeldByOthers(w))
           child_id == nextId[child.table]
           pend == <<MapRow(r, child.input.source_event_id, child.table, child_id)>>
           l2 == [l EXCEPT
                    !.j = @ + 1,
                    !.warnings = @ \o item.warnings,
                    !.resolved_line_items =
                        IF isLine
                        THEN Append(@,
                               [source_event_id |-> child.input.source_event_id,
                                ticket_line_item_id |-> child_id,
                                item_id |-> item.item_id,
                                mapping_status |-> item.mapping_status])
                        ELSE @]
       IN  /\ f.status # "blocked"
           /\ nextId' = f.nextId
           /\ IF f.status = "IntegrityError"
              THEN TicketsFail(w, "IntegrityError", f.row)
              ELSE /\ uncommitted' = [uncommitted EXCEPT ![w] = f.uncommitted]
                   /\ IF l.j = Len(Children(t))
                      THEN TicketDone(w, l2, pend)
                      ELSE /\ pending' = [pending EXCEPT ![w] = pend]
                           /\ lv' = [lv EXCEPT ![w] = l2]
                           /\ UNCHANGED pc
                   /\ UNCHANGED <<businessDays, locationHours, ingestTables,
                                  otherTables, autoflush, req, last, calls>>

\* Lines 1169-1178: db.commit() and the response.
TicketsCommit(w) ==
    /\ pc[w] = "tk_lookup"
    /\ lv[w].i > Len(req[w].tickets)
    /\ LET f == FlushSession(w)
           rows == f.uncommitted
       IN  /\ f.status # "blocked"
           /\ nextId' = f.nextId
           /\ IF f.status = "IntegrityError"
              THEN TicketsFail(w, "IntegrityError", f.row)
              ELSE /\ tickets' = tickets \cup RowsOf(rows, "ticket")
                   /\ eventMap' = Committed(eventMap,
                                            RowsOf(rows, "ingestion_event_map"))
                   /\ ticketChildren' = ticketChildren
                         \cup (rows \ (RowsOf(rows, "ticket")
                                  \cup RowsOf(rows, "ingestion_event_map")))
                   /\ Respond(w, Response("tickets", TicketArgs(req[w]), 200,
                         [accepted |-> lv[w].accepted, updated |-> lv[w].updated,
                          rejected |-> lv[w].rejected,
                          results |-> lv[w].results, txn |-> req[w].txn]))
                   /\ EndSession(w)
                   /\ UNCHANGED <<businessDays, locationHours, ledger,
                                  otherTables, autoflush, calls>>

\* The worker or its connection dies inside bulk_upsert_tickets: the
\* database rolls the open transaction back and no response is sent.
TicketsCrash(w) ==
    /\ pc[w] \in {"tk_lookup", "tk_create", "tk_child"}
    /\ TicketsFail(w, "crash", NoData)
    /\ UNCHANGED nextId

\* The flush worker w has to run next waits for a key that worker v holds.
WaitsFor(w, v) ==
    /\ pc[w] \in {"tk_lookup", "tk_create", "tk_child"}
    /\ pc[w] = "tk_lookup" /\ lv[w].i <= Len(req[w].tickets) => autoflush
    /\ LET f == Flush(pending[w], uncommitted[w], nextId,
                      {MapKey(m) : m \in RowsOf(uncommitted[v],
                                                "ingestion_event_map")})
       IN  f.status = "blocked"

\* Two transactions wait for each other's index keys: the database detects
\* the deadlock and aborts one of them.
TicketsDeadlock(w) ==
    /\ \E v \in Workers \ {w} : WaitsFor(w, v) /\ WaitsFor(v, w)
    /\ TicketsFail(w, "DeadlockDetected", NoData)
    /\ UNCHANGED nextId

\* --------------------------------------------------- item external keys

\* POST /api/v1/item-external-keys, lines 747-766: db.add(mapping);
\* db.commit().  The primary key of ItemExternalKey is all four columns
\* (models.py 365-377), so only a row equal to an existing one is refused
\* (IntegrityError, a 500); the handler makes no query before the insert.
CreateItemExternalKey(w, sequential, maxCalls, mappings) ==
    /\ CanBegin(w, sequential, maxCalls)
    /\ calls' = calls + 1
    /\ \E mapping \in mappings :
         IF mapping \in itemExternalKeys
         THEN /\ Respond(w, Response("item_key", mapping, 500,
                                     [error |-> "IntegrityError"]))
              /\ UNCHANGED itemExternalKeys
         ELSE /\ itemExternalKeys' = itemExternalKeys \cup {mapping}
              /\ Respond(w, Response("item_key", mapping, 200,
                                     [item_external_key_id |-> 0]))
    /\ UNCHANGED <<businessDays, locationHours, ingestTables, entities,
                   adminState, nextId,
                   sessions>>

\* --------------------------------------------------- structured bulk upserts

\* The structured bulk-upsert endpoints, each named by the entity_type it
\* gives its IngestionEventMap rows (lines 1203, 1263, 1332, 1432, 1498).
StructuredEndpoints ==
    {"open_close_signal", "pos_downtime_event", "labor_punch", "payout",
     "stockout_event"}

\* The fields the input schema of an endpoint declares: OpenCloseSignalInput
\* (1180-1184), DowntimeEventInput (1240-1245), LaborPunchInput (1300-1307),
\* PayoutInput (1400-1411), StockoutInput (1468-1475).
InputFields(endpoint) ==
    CASE endpoint = "open_close_signal" ->
           {"source_event_id", "signal_type", "occurred_at", "metadata"}
      [] endpoint = "pos_downtime_event" ->
           {"source_event_id", "started_at", "ended_at", "reason", "metadata"}
      [] endpoint = "labor_punch" ->
           {"source_event_id", "employee_id", "employee_external_key", "role",
            "clock_in", "clock_out", "metadata"}
      [] endpoint = "payout" ->
           {"source_event_id", "provider", "payout_reference", "status",
            "currency_code", "amount", "period_start", "period_end",
            "expected_payout_at", "paid_at", "metadata"}
      [] endpoint = "stockout_event" ->
           {"source_event_id", "item_id", "item_name_raw", "started_at",
            "ended_at", "reason", "metadata"}

\* The attributes of the input that the handler reads to build the entity
\* row (lines 1214-1222, 1274-1282, 1357-1366, 1437-1451, 1503-1513).
RowReads(endpoint) ==
    CASE endpoint = "open_close_signal" ->
           {"signal_type", "occurred_at", "metadata_json"}
      [] endpoint = "pos_downtime_event" ->
           {"started_at", "ended_at", "reason", "metadata_json"}
      [] endpoint = "labor_punch" ->
           {"clock_in", "clock_out", "role", "metadata_json"}
      [] endpoint = "payout" ->
           {"provider", "payout_reference", "status", "amount",
            "currency_code", "period_start", "period_end",
            "expected_payout_at", "paid_at"}
      [] endpoint = "stockout_event" ->
           {"item_id", "item_name_raw", "started_at", "ended_at", "reason",
            "metadata_json"}

\* Reading an attribute that the pydantic model does not declare raises
\* AttributeError.
RaisesAttributeError(endpoint) == RowReads(endpoint) \ InputFields(endpoint) # {}

\* Lines 1345-1353: the employee of a punch, the outcomes the lookup can
\* have: the given employee_id, else the id of an Employee row of the
\* request's tenant and location with the punch's employee_external_key
\* (.first() without ORDER BY), else None.
ResolveEmployee(r, event) ==
    IF event.employee_id = NoId /\ event.employee_external_key # ""
    THEN LET found == {e \in EmployeeRows :
                          /\ e.tenant_id = r.tenant_id
                          /\ e.location_id = r.location_id
                          /\ e.external_key = event.employee_external_key}
         IN  IF found # {} THEN {e.id : e \in found} ELSE {NoId}
    ELSE {event.employee_id}

\* Line 1354: `if not employee_id`, a test only the labor punches make.
NoEmployeeNeverMutant(endpoint, employee_id) == FALSE

NoEmployee(endpoint, employee_id) ==
    endpoint = "labor_punch" /\ employee_id = NoId

\* Lines 1336-1343, 1380-1387: the results entry of a labor punch; the
\* other endpoints keep no results list.
StructuredResults(endpoint, results, event, entity_id, employee_id) ==
    IF endpoint = "labor_punch"
    THEN Append(results, [source_event_id |-> event.source_event_id,
                          labor_punch_id |-> entity_id,
                          resolved_employee_id |-> employee_id,
                          warnings |-> <<>>])
    ELSE results

StructuredArgs(r) ==
    [endpoint |-> r.endpoint, tenant_id |-> r.tenant_id,
     location_id |-> r.location_id, source_system_id |-> r.source_system_id,
     events |-> r.events]

\* POST .../open-close-signals:bulkUpsert, downtime-events:bulkUpsert,
\* punches:bulkUpsert, payouts:bulkUpsert, stockouts:bulkUpsert: the handler
\* starts with its counters at zero.
BulkUpsertStructured(w, sequential, maxCalls, endpoints, scopes, batches) ==
    /\ CanBegin(w, sequential, maxCalls)
    /\ calls' = calls + 1
    /\ \E endpoint \in endpoints, s \in scopes, batch \in batches :
         req' = [req EXCEPT ![w] =
                   [op |-> "structured", endpoint |-> endpoint,
                    tenant_id |-> s[1], location_id |-> s[2],
                    source_system_id |-> s[3], events |-> batch,
                    txn |-> calls + 1]]
    /\ lv' = [lv EXCEPT ![w] =
                [i |-> 1, accepted |-> 0, updated |-> 0, rejected |-> 0,
                 results |-> <<>>]]
    /\ pc' = [pc EXCEPT ![w] = "st_loop"]
    /\ UNCHANGED <<businessDays, locationHours, ingestTables, otherTables,
                   nextId, autoflush, pending, uncommitted, last>>

\* The request of worker w fails with an unhandled exception: get_db closes
\* the session, the transaction is rolled back, the client gets a 500 (no
\* response, status 0, when the process itself died).
StructuredFail(w, error) ==
    LET kept == KeptOnClose(uncommitted[w])
    IN  /\ eventMap' = eventMap \cup RowsOf(kept, "ingestion_event_map")
        /\ entities' = entities \cup (kept \ RowsOf(kept, "ingestion_event_map"))
        /\ Respond(w, Response("structured", StructuredArgs(req[w]),
              IF error = "crash" THEN 0 ELSE 500,
              [error |-> error, txn |-> req[w].txn]))
        /\ EndSession(w)
        /\ UNCHANGED <<businessDays, locationHours, ledger, tickets,
                       ticketChildren, itemExternalKeys, adminState, autoflush,
                       calls>>

\* One pass of the loop (e.g. lines 1197-1234): the dedup query, which
\* autoflushes; for an event without a map row the entity row is built,
\* added and flushed, and its IngestionEventMap row added.
StructuredLoop(w) ==
    /\ pc[w] = "st_loop"
    /\ lv[w].i <= Len(req[w].events)
    /\ LET r == req[w]
           l == lv[w]
           event == r.events[l.i]
           q == BeforeQuery(w)
           existing == {m \in eventMap \cup q.uncommitted :
                          /\ m.table = "ingestion_event_map"
                          /\ m.tenant_id = r.tenant_id
                          /\ m.source_system_id = r.source_system_id
                          /\ m.source_event_id = event.source_event_id
                          /\ m.entity_type = r.endpoint}
           row == [table |-> r.endpoint, id |-> NoId, tenant_id |-> r.tenant_id,
                   location_id |-> r.location_id,
                   source_system_id |-> r.source_system_id, txn |-> r.txn]
           f == Flush(Append(q.pending, row), q.uncommitted, q.nextId,
                      HeldByOthers(w))
       IN  /\ q.status # "blocked"
           /\ IF q.status = "IntegrityError"
              THEN StructuredFail(w, "IntegrityError") /\ nextId' = q.nextId
              ELSE IF existing # {}
              THEN /\ \E m \in existing :
                        lv' = [lv EXCEPT ![w] =
                          [l EXCEPT !.i = @ + 1,
                                    !.updated = @ + 1,
                                    !.results = StructuredResults(r.endpoint, @,
                                       event, m.entity_id, event.employee_id)]]
                   /\ pending' = [pending EXCEPT ![w] = q.pending]
                   /\ uncommitted' = [uncommitted EXCEPT ![w] = q.uncommitted]
                   /\ nextId' = q.nextId
                   /\ UNCHANGED <<businessDays, locationHours, ingestTables,
                                  otherTables, autoflush, pc, req, last, calls>>
              ELSE \E employee_id \in ResolveEmployee(r, event) :
                   IF NoEmployee(r.endpoint, employee_id)
              THEN /\ lv' = [lv EXCEPT ![w] = [l EXCEPT !.i = @ + 1,
                                                        !.rejected = @ + 1]]
                   /\ pending' = [pending EXCEPT ![w] = q.pending]
                   /\ uncommitted' = [uncommitted EXCEPT ![w] = q.uncommitted]
                   /\ nextId' = q.nextId
                   /\ UNCHANGED <<businessDays, locationHours, ingestTables,
                                  otherTables, autoflush, pc, req, last, calls>>
              ELSE IF RaisesAttributeError(r.endpoint)
              THEN StructuredFail(w, "AttributeError") /\ nextId' = q.nextId
              ELSE /\ f.status # "blocked"
                   /\ nextId' = f.nextId
                   /\ IF f.status = "IntegrityError"
                      THEN StructuredFail(w, "IntegrityError")
                      ELSE /\ uncommitted' =
                                [uncommitted EXCEPT ![w] = f.uncommitted]
                           /\ pending' = [pending EXCEPT ![w] =
                                <<MapRow(r, event.source_event_id, r.endpoint,
                                         q.nextId[r.endpoint])>>]
                           /\ lv' = [lv EXCEPT ![w] =
                                [l EXCEPT !.i = @ + 1,
                                          !.accepted = @ + 1,
                                          !.results = StructuredResults(
                                             r.endpoint, @, event,
                                             q.nextId[r.endpoint], employee_id)]]
                           /\ UNCHANGED <<businessDays, locationHours,
                                          ingestTables, otherTables, autoflush,
                                          pc, req, last, calls>>

\* db.commit() after the loop and the response (e.g. lines 1235-1237).
StructuredCommit(w) ==
    /\ pc[w] = "st_loop"
    /\ lv[w].i > Len(req[w].events)
    /\ LET f == FlushSession(w)
           rows == f.uncommitted
       IN  /\ f.status # "blocked"
           /\ nextId' = f.nextId
           /\ IF f.status = "IntegrityError"
              THEN StructuredFail(w, "IntegrityError")
              ELSE /\ eventMap' = Committed(eventMap,
                                            RowsOf(rows, "ingestion_event_map"))
                   /\ entities' = entities
                         \cup (rows \ RowsOf(rows, "ingestion_event_map"))
                   /\ Respond(w, Response("structured", StructuredArgs(req[w]),
                         200,
                         IF req[w].endpoint = "labor_punch"
                         THEN [accepted |-> lv[w].accepted,
                               updated |-> lv[w].updated,
                               rejected |-> lv[w].rejected,
                               results |-> lv[w].results, txn |-> req[w].txn]
                         ELSE [accepted |-> lv[w].accepted,
                               updated |-> lv[w].updated,
                               rejected |-> lv[w].rejected,
                               txn |-> req[w].txn]))
                   /\ EndSession(w)
                   /\ UNCHANGED <<businessDays, locationHours, ledger, tickets,
                                  ticketChildren, itemExternalKeys, adminState,
                                  autoflush,
                                  calls>>

\* The worker or its connection dies inside a structured upsert: the
\* database rolls the open transaction back and no response is sent.
StructuredCrash(w) ==
    /\ pc[w] = "st_loop"
    /\ StructuredFail(w, "crash")
    /\ UNCHANGED nextId

\* ------------------------------------------------------------------ assets

\* Line 1627: `if not location or location.tenant_id != payload.tenant_id`.
InvalidLocationAbsentOnlyMutant(found, tenant_id) == found = {}

InvalidLocation(found, tenant_id) ==
    found = {} \/ (\E l \in found : l.tenant_id # tenant_id)

\* POST /api/v1/assets, lines 1625-1654: the location check, then
\* db.add(asset); db.commit(); db.refresh(asset) and the row echoed.
CreateAsset(w, sequential, maxCalls, targets, names) ==
    /\ CanBegin(w, sequential, maxCalls)
    /\ calls' = calls + 1
    /\ \E t \in targets, asset_name \in names :
         LET args == [tenant_id |-> t[1], location_id |-> t[2],
                      asset_name |-> asset_name]
             asset == [id |-> nextId["asset"], tenant_id |-> t[1],
                       location_id |-> t[2], asset_name |-> asset_name]
         IN  IF InvalidLocation(GetLocation(t[2]), t[1])
             THEN /\ Respond(w, Response("asset", args, 400,
                       [detail |-> "invalid tenant_id or location_id"]))
                  /\ UNCHANGED <<assets, nextId>>
             ELSE /\ assets' = Committed(assets, {asset})
                  /\ nextId' = [nextId EXCEPT !["asset"] = @ + 1]
                  /\ Respond(w, Response("asset", args, 200,
                       [asset_id |-> asset.id, tenant_id |-> asset.tenant_id,
                        location_id |-> asset.location_id,
                        asset_name |-> asset.asset_name]))
    /\ UNCHANGED <<businessDays, locationHours, ingestTables, entities,
                   itemExternalKeys, sourceSystems, pager, sessions>>

\* ---------------------------------------------------------- source systems

\* An Optional value: <<>> is None, <<v>> holds v.
None == <<>>
Some(v) == <<v>>

\* str(n) of a cursor and int(s) of the query parameter parsed back.
Str(n) == [str |-> n]
ParseInt(text) == text.str

\* The rows of a set in the order of ORDER BY id.
RECURSIVE OrderById(_)
OrderById(rows) ==
    IF rows = {} THEN <<>>
    ELSE LET first == CHOOSE r \in rows : \A o \in rows : r.id <= o.id
         IN  <<first>> \o OrderById(rows \ {first})

\* The first n entries of a sequence.
Take(seq, n) == SubSeq(seq, 1, IF n < Len(seq) THEN n ELSE Len(seq))

\* _paginate_by_id, lines 93-101: rows after the cursor in id order, limit + 1
\* of them fetched; with a row to spare the cursor of the next page is the
\* id of the last row returned.
_paginate_by_id(rows, limit, cursor) ==
    LET after == IF cursor # None THEN {r \in rows : r.id > cursor[1]} ELSE rows
        fetched == Take(OrderById(after), limit + 1)
    IN  IF Len(fetched) > limit
        THEN [rows |-> Take(fetched, limit), next_cursor |-> Some(fetched[limit].id)]
        ELSE [rows |-> fetched, next_cursor |-> None]

\* _list_meta, lines 114-122: meta.page of a list response.
_list_meta(limit, cursor, next_cursor) ==
    IF next_cursor # None
    THEN [limit |-> limit, cursor |-> Some(Str(next_cursor[1]))]
    ELSE IF cursor # None
    THEN [limit |-> limit, cursor |-> Some(Str(cursor[1]))]
    ELSE [limit |-> limit, cursor |-> None]

\* Lines 302-309: a row passes when it equals every filter supplied; a
\* filter is a record of the query parameters that are not None.
MatchesFiltersIgnoresActiveMutant(system, filter) ==
    \A k \in DOMAIN filter \ {"is_active"} : system[k] = filter[k]

MatchesFilters(system, filter) ==
    \A k \in DOMAIN filter : system[k] = filter[k]

\* GET /api/v1/source-systems, lines 292-323: the body of the response.
ListSourceSystemsBody(filter, limit, cursor) ==
    LET query == {system \in sourceSystems : MatchesFilters(system, filter)}
        page == _paginate_by_id(query, limit, cursor)
    IN  [data |-> [i \in DOMAIN page.rows |->
                     [source_system_id |-> page.rows[i].id,
                      tenant_id |-> page.rows[i].tenant_id,
                      system_type |-> page.rows[i].system_type,
                      provider |-> page.rows[i].provider,
                      name |-> page.rows[i].name,
                      is_active |-> page.rows[i].is_active]],
         page |-> _list_meta(limit, cursor, page.next_cursor)]

\* POST /api/v1/source-systems, lines 250-271: provider and name are both
\* payload.name, system_type is payload.type.
CreateSourceSystem(w, sequential, maxCalls, bodies) ==
    /\ CanBegin(w, sequential, maxCalls)
    /\ ~ pager.active
    /\ calls' = calls + 1
    /\ \E payload \in bodies :
         LET source_system == [id |-> nextId["source_system"],
                               tenant_id |-> payload.tenant_id,
                               system_type |-> payload.type,
                               provider |-> payload.name,
                               name |-> payload.name,
                               is_active |-> payload.is_active]
         IN  /\ sourceSystems' = Committed(sourceSystems, {source_system})
             /\ nextId' = [nextId EXCEPT !["source_system"] = @ + 1]
             /\ Respond(w, Response("create_source_system", payload, 200,
                   [source_system_id |-> source_system.id,
                    name |-> source_system.name,
                    type |-> source_system.system_type,
                    is_active |-> source_system.is_active]))
    /\ UNCHANGED <<businessDays, locationHours, ingestTables, entities,
                   itemExternalKeys, assets, pager, sessions>>

ListSourceSystems(w, sequential, maxCalls, filters, limits, cursors) ==
    /\ CanBegin(w, sequential, maxCalls)
    /\ ~ pager.active
    /\ calls' = calls + 1
    /\ \E filter \in filters, limit \in limits, cursor \in cursors :
         Respond(w, Response("list_source_systems",
                    [filter |-> filter, limit |-> limit, cursor |-> cursor],
                    200, ListSourceSystemsBody(filter, limit, cursor)))
    /\ UNCHANGED <<businessDays, locationHours, ingestTables, otherTables,
                   nextId, sessions>>

\* A client begins to walk the list: no cursor on its first request.
PagerStart(filters, limits) ==
    /\ ~ pager.active
    /\ \A w \in Workers : pc[w] = "idle"
    /\ sourceSystems # {}
    /\ \E filter \in filters, limit \in limits :
         pager' = [active |-> TRUE, filter |-> filter, limit |-> limit,
                   cursor |-> None, received |-> <<>>, done |-> FALSE,
                   requests |-> 0]
    /\ UNCHANGED <<businessDays, locationHours, ingestTables, entities,
                   itemExternalKeys, assets, sourceSystems, nextId, sessions,
                   pc, req, last, calls>>

\* The client requests the page of its cursor, keeps the rows and takes
\* meta.page.cursor as its next cursor; it stops when that cursor is null.
PagerStep(maxRequests) ==
    /\ pager.active /\ ~ pager.done
    /\ pager.requests < maxRequests
    /\ LET body == ListSourceSystemsBody(pager.filter, pager.limit, pager.cursor)
           ids == [i \in DOMAIN body.data |-> body.data[i].source_system_id]
       IN  pager' = [pager EXCEPT
                       !.received = @ \o ids,
                       !.requests = @ + 1,
                       !.done = body.page.cursor = None,
                       !.cursor = IF body.page.cursor = None THEN None
                                  ELSE Some(ParseInt(body.page.cursor[1]))]
    /\ UNCHANGED <<businessDays, locationHours, ingestTables, entities,
                   itemExternalKeys, assets, sourceSystems, nextId, sessions,
                   pc, req, last, calls>>

\* ---------------------------------------------------------- request inputs

\* (tenant_id, location_id) pairs of requests: a location of the tenant in a
\* fixed-offset zone, one in a zone with daylight saving, a location of
\* another tenant, and a location that does not exist.
Targets == {<<1, 1>>, <<1, 2>>, <<2, 1>>, <<1, 3>>}

\* Instants: local 04:59, 05:00 and 05:30 on 2026-01-16 in Asia/Karachi
\* (UTC+5), local noon on 2026-03-07 in America/New_York (UTC-5) and local
\* 04:30 on 2026-11-01 there, after the clocks went back (09:30Z).
KarachiLocal(day, h, m) == day * SecondsPerDay + h * 3600 + m * 60 - 5 * 3600
Instants ==
    { KarachiLocal(1, 4, 59), KarachiLocal(1, 5, 0), KarachiLocal(1, 5, 30),
      51 * SecondsPerDay + 17 * 3600,
      290 * SecondsPerDay + 9 * 3600 + 30 * 60 }

\* Business dates of ensure requests: 2026-01-15, 2026-01-16, 2026-03-07,
\* 2026-10-31.
Dates == {0, 1, 51, 289}

\* business_day_cutover_local strings of hours upserts.
CutoverStrings == {<<5, 0>>, <<6, 0>>}

\* hours lists of hours upserts, by their day_of_week entries.
HourLists == {<<>>, <<0, 1>>}

\* Ledger scopes (tenant_id, location_id, feed_type, domain): the sales
\* ledger of two locations and the master-data ledger.
LedgerScopes ==
    { <<1, 1, "ERP_SALES_LEDGER", "ERP">>,
      <<1, 2, "ERP_SALES_LEDGER", "ERP">>,
      <<1, 1, "MASTER_DATA_LEDGER", "MASTER">> }

Event(source_event_id) == [source_event_id |-> source_event_id]

\* Event batches: one event, the same event twice, three events of which the
\* second has an empty source_event_id, and three events of which the
\* second has no source_event_id at all.
LedgerBatches ==
    { <<Event("E1")>>, <<Event("E2")>>, <<Event("E1"), Event("E1")>>,
      <<Event("E1"), Event(""), Event("E2")>>,
      <<Event("E1"), [payload |-> "x"], Event("E2")>>,
      <<Event("")>>, <<Event(""), Event("E1")>> }

\* Batches of concurrent appends: no source_event_id twice in one batch.
LedgerBatchesDistinct ==
    { <<Event("E1")>>, <<Event("E2"), Event("E1")>>, <<Event("")>>,
      <<Event(""), Event("E1")>> }


\* Ticket scopes (tenant_id, location_id, source_system_id, business_day_id).
TicketScopes == {<<1, 1, 1, NoId>>, <<2, 1, 1, NoId>>}

NoChildren ==
    [line_items |-> <<>>, payments |-> <<>>, discounts |-> <<>>,
     voids |-> <<>>, refunds |-> <<>>]

Sub(source_event_id) == [source_event_id |-> source_event_id]

Line(source_event_id, item_id, external_item_key) ==
    [source_event_id |-> source_event_id, item_id |-> item_id,
     external_item_key |-> external_item_key]

\* T-1: a closed ticket with one child of every kind, its line item mapped by
\* external key.  T-2 and T-4: tickets without children, T-2 with a mapped
\* channel.  T-3: a ticket whose line item reuses the source_event_id of
\* T-1's.  TicketT1Reopened: T-1 again with another status and no children.
TicketT1 ==
    [source_event_id |-> "T-1", status |-> "CLOSED", channel |-> NoData,
     line_items |-> <<Line("T-1-L1", NoId, "SQ-ITEM-1")>>,
     payments |-> <<Sub("T-1-P1")>>, discounts |-> <<Sub("T-1-D1")>>,
     voids |-> <<Sub("T-1-V1")>>, refunds |-> <<Sub("T-1-R1")>>]

TicketT2 ==
    [source_event_id |-> "T-2", status |-> "CLOSED",
     channel |-> [provider |-> "pos_square", source_channel_code |-> "DINEIN"]]
      @@ NoChildren

TicketT3 ==
    [source_event_id |-> "T-3", status |-> "CLOSED", channel |-> NoData,
     line_items |-> <<Line("T-1-L1", 11, "")>>] @@ NoChildren

TicketT4 ==
    [source_event_id |-> "T-4", status |-> "OPEN",
     channel |-> [provider |-> "pos_square", source_channel_code |-> "TOGO"]]
      @@ NoChildren

TicketT1Reopened ==
    [source_event_id |-> "T-1", status |-> "OPEN", channel |-> NoData]
      @@ NoChildren

TicketT5 ==
    [source_event_id |-> "T-5", status |-> "CLOSED", channel |-> NoData,
     line_items |-> <<Line("T-5-L1", NoId, "SQ-ITEM-9")>>,
     payments |-> <<Sub("T-5-P1")>>] @@ NoChildren

TicketBatches ==
    { <<TicketT1>>, <<TicketT2>>, <<TicketT1, TicketT2>>, <<TicketT2, TicketT2>>,
      <<TicketT3>>, <<TicketT1Reopened>>, <<TicketT4>>, <<TicketT5>> }

\* Batches of concurrent upserts.
TicketBatchesConcurrent ==
    { <<TicketT5>>, <<TicketT2>>, <<TicketT2, TicketT4>>, <<TicketT4, TicketT2>> }

\* -------------------------------------------------------- specifications

\* (tenant_id, location_id, source_system_id) of structured upserts.
StructuredScopes == {<<1, 1, 1>>, <<2, 1, 1>>}

\* An event of a structured upsert; employee_id and employee_external_key
\* matter to labor punches only (the other inputs have no such fields).
StructuredEvent(source_event_id, employee_id) ==
    [source_event_id |-> source_event_id, employee_id |-> employee_id,
     employee_external_key |-> ""]

\* A labor punch that names its employee by external key only.
PunchByKey(source_event_id, employee_external_key) ==
    [source_event_id |-> source_event_id, employee_id |-> NoId,
     employee_external_key |-> employee_external_key]

\* Batches: one event, two events, one event twice, an event without
\* employee; two events without a resolvable employee, one of them followed
\* by an event with an employee, and an event whose key names an employee.
StructuredBatches ==
    { <<StructuredEvent("S1", 55)>>, <<StructuredEvent("S2", 55)>>,
      <<StructuredEvent("S1", 55), StructuredEvent("S2", 55)>>,
      <<StructuredEvent("S1", 55), StructuredEvent("S1", 55)>>,
      <<StructuredEvent("S3", NoId)>>,
      <<StructuredEvent("S3", NoId), PunchByKey("S4", "POS-EMP-99")>>,
      <<PunchByKey("S4", "POS-EMP-99"), StructuredEvent("S1", 55)>>,
      <<PunchByKey("S5", "POS-EMP-12")>> }

\* Event dicts handed to _ledger_event_time: each of the eight time fields
\* is absent, None, or holds an instant of its own.
LedgerTimeFields == {"event_time"} \cup {LedgerTimeKeys[i] : i \in DOMAIN LedgerTimeKeys}

StampOf(key) ==
    IF key = "event_time" THEN 100
    ELSE 100 + (CHOOSE i \in DOMAIN LedgerTimeKeys : LedgerTimeKeys[i] = key)

LedgerTimePayloads ==
    { [key \in {k \in LedgerTimeFields : shape[k] # "absent"} |->
          IF shape[key] = "none" THEN NoTime ELSE StampOf(key)] :
      shape \in [LedgerTimeFields -> {"absent", "none", "set"}] }

\* Values of _now().
ServerTimes == {998, 999}

\* Names of assets.
AssetNames == {"Rice Cooker #1", "Fryer"}

\* Bodies of create_source_system and the query parameters of the list.
SourceSystemBodies ==
    { [name |-> "pos_square", type |-> "POS", is_active |-> TRUE, tenant_id |-> 1],
      [name |-> "pos_square", type |-> "POS", is_active |-> FALSE, tenant_id |-> 1],
      [name |-> "erp", type |-> "ERP", is_active |-> TRUE, tenant_id |-> 1],
      [name |-> "pos_square", type |-> "POS", is_active |-> TRUE, tenant_id |-> 2] }

SourceSystemFilters ==
    { <<>>, [tenant_id |-> 1], [is_active |-> TRUE],
      [tenant_id |-> 1, is_active |-> TRUE],
      [tenant_id |-> 1, provider |-> "pos_square", system_type |-> "POS"] }

PageLimits == {1, 2, 50}

PageCursors == {None, Some(1)}

\* Bodies of item-external-key requests: two tenants, two items, two keys
\* of source system 1.
ItemKeyMappings ==
    [tenant_id : {1, 2}, item_id : {11, 12}, source_system_id : {1},
     external_item_key : {"SQ-ITEM-1", "SQ-ITEM-2"}]

BusinessDayNext(sequential, workers) ==
    \E w \in workers :
        \/ ResolveBusinessDay(w, sequential, MaxCallsBD, Targets, Instants)
        \/ EnsureBusinessDay(w, sequential, MaxCallsBD, Targets, Dates)
        \/ InsertBusinessDay(w)
        \/ UpsertLocationHours(w, sequential, MaxCallsBD, {<<1, 1>>, <<1, 2>>},
                               CutoverStrings, HourLists)

\* Business-day requests issued one after the other.
SpecBusinessDaySeq == Init /\ [][BusinessDayNext(TRUE, {"w1"})]_vars

\* Business-day requests of two workers, interleaved.
SpecBusinessDay == Init /\ [][BusinessDayNext(FALSE, Workers)]_vars

LedgerNext(sequential, workers, scopes, batches) ==
    \E w \in workers :
        \/ AppendLedgerEvents(w, sequential, MaxCallsLedger, scopes, batches)
        \/ LedgerLoop(w)
        \/ LedgerCommit(w)
        \/ LedgerAbort(w)

\* Ledger appends issued one after the other.
SpecLedgerSeq ==
    Init /\ [][LedgerNext(TRUE, {"w1"}, LedgerScopes, LedgerBatches)]_vars

\* Ledger appends of two workers, interleaved.
SpecLedger ==
    Init /\ [][LedgerNext(FALSE, Workers, {<<1, 1, "ERP_SALES_LEDGER", "ERP">>},
                          LedgerBatchesDistinct)]_vars

TicketsNext(sequential, workers, scopes, batches) ==
    \E w \in workers :
        \/ BulkUpsertTickets(w, sequential, MaxCallsTickets, scopes, batches)
        \/ TicketLookup(w)
        \/ TicketCreate(w)
        \/ TicketChild(w)
        \/ TicketsCommit(w)
        \/ TicketsCrash(w)

\* Ticket bulk upserts issued one after the other.
SpecTicketsSeq ==
    Init /\ [][TicketsNext(TRUE, {"w1"}, TicketScopes, TicketBatches)]_vars

\* Ticket bulk upserts of two workers, interleaved.
SpecTickets ==
    Init /\ [][\/ TicketsNext(FALSE, Workers, {<<1, 1, 1, NoId>>},
                              TicketBatchesConcurrent)
               \/ \E w \in Workers : TicketsDeadlock(w)]_vars

\* The structured bulk upserts alone.
StructuredNext(sequential, workers, endpoints, scopes, batches) ==
    \E w \in workers :
       \/ BulkUpsertStructured(w, sequential, MaxCallsStructured, endpoints,
                               scopes, batches)
       \/ StructuredLoop(w)
       \/ StructuredCommit(w)
       \/ StructuredCrash(w)

SpecStructuredSeq ==
    Init /\ [][StructuredNext(TRUE, {"w1"}, StructuredEndpoints,
                              StructuredScopes, StructuredBatches)]_vars

\* _ledger_event_time alone, on every event dict of LedgerTimePayloads.
LedgerTimeNext ==
    \E w \in {"w1"} :
       LedgerEventTime(w, MaxCallsLedgerTime, LedgerTimePayloads, ServerTimes)

SpecLedgerTime == Init /\ [][LedgerTimeNext]_vars

\* Ledger appends and ticket upserts of one tenant, one after the other,
\* with event ids that both paths use.
KeyspacesNext ==
    \E w \in {"w1"} :
       \/ AppendLedgerEvents(w, TRUE, MaxCallsKeyspaces,
                             {<<1, 1, "ERP_SALES_LEDGER", "ERP">>},
                             {<<Event("T-2")>>, <<Event("T-5")>>, <<Event("")>>})
       \/ LedgerLoop(w)
       \/ LedgerCommit(w)
       \/ LedgerAbort(w)
       \/ BulkUpsertTickets(w, TRUE, MaxCallsKeyspaces, {<<1, 1, 1, NoId>>},
                            {<<TicketT2>>, <<TicketT5>>})
       \/ TicketLookup(w)
       \/ TicketCreate(w)
       \/ TicketChild(w)
       \/ TicketsCommit(w)
       \/ TicketsCrash(w)
       \/ BulkUpsertStructured(w, TRUE, MaxCallsKeyspaces, {"payout"},
                               {<<1, 1, 1>>}, {<<StructuredEvent("T-2", 55)>>})
       \/ StructuredLoop(w)
       \/ StructuredCommit(w)
       \/ StructuredCrash(w)

SpecKeyspacesSeq == Init /\ [][KeyspacesNext]_vars

\* The asset endpoint alone, one request at a time.
AssetsNext ==
    \E w \in {"w1"} : CreateAsset(w, TRUE, MaxCallsAssets, Targets, AssetNames)

SpecAssetsSeq == Init /\ [][AssetsNext]_vars

\* The source-system endpoints, one request at a time, and a client that
\* walks the list while no request changes the table.
SourceSystemsNext ==
    \/ \E w \in {"w1"} :
          \/ CreateSourceSystem(w, TRUE, MaxCallsSourceSystems,
                                SourceSystemBodies)
          \/ ListSourceSystems(w, TRUE, MaxCallsSourceSystems,
                               SourceSystemFilters, PageLimits, PageCursors)
    \/ PagerStart(SourceSystemFilters, PageLimits)
    \/ PagerStep(MaxPageRequests)

SpecSourceSystemsSeq == Init /\ [][SourceSystemsNext]_vars

\* The item-external-key endpoint alone, one request at a time.
ItemKeysNext(sequential, workers) ==
    \E w \in workers :
       CreateItemExternalKey(w, sequential, MaxCallsItemKeys, ItemKeyMappings)

SpecItemKeysSeq == Init /\ [][ItemKeysNext(TRUE, {"w1"})]_vars

\* The ledger, ticket and structured-upsert steps of the whole service.
ServiceLedgerNext ==
    \E w \in Workers :
       \/ AppendLedgerEvents(w, FALSE, MaxCallsService,
                             {<<1, 1, "ERP_SALES_LEDGER", "ERP">>},
                             {<<Event("E1")>>, <<Event("")>>})
       \/ LedgerLoop(w)
       \/ LedgerCommit(w)
       \/ LedgerAbort(w)

ServiceTicketsNext ==
    \E w \in Workers :
       \/ BulkUpsertTickets(w, FALSE, MaxCallsService, {<<1, 1, 1, NoId>>},
                            {<<TicketT5>>, <<TicketT2, TicketT4>>,
                             <<TicketT4, TicketT2>>})
       \/ TicketLookup(w)
       \/ TicketCreate(w)
       \/ TicketChild(w)
       \/ TicketsCommit(w)
       \/ TicketsCrash(w)

ServiceStructuredNext ==
    \E w \in Workers :
       \/ BulkUpsertStructured(w, FALSE, MaxCallsService, StructuredEndpoints,
                               {<<1, 1, 1>>}, {<<StructuredEvent("S1", 55)>>})
       \/ StructuredLoop(w)
       \/ StructuredCommit(w)
       \/ StructuredCrash(w)

\* The whole service: every request of every worker, interleaved, each
\* operation with a few of its inputs.
Next ==
    \/ \E w \in Workers :
          \/ ResolveBusinessDay(w, FALSE, MaxCallsService, {<<1, 1>>},
                                {KarachiLocal(0, 12, 0)})
          \/ EnsureBusinessDay(w, FALSE, MaxCallsService, {<<1, 1>>}, {0})
          \/ InsertBusinessDay(w)
          \/ UpsertLocationHours(w, FALSE, MaxCallsService, {<<1, 1>>},
                                 {<<6, 0>>}, {<<0, 1>>})
    \/ ServiceLedgerNext
    \/ ServiceTicketsNext
    \/ \E w \in Workers : TicketsDeadlock(w)
    \/ ServiceStructuredNext
    \/ \E w \in Workers :
          CreateItemExternalKey(w, FALSE, MaxCallsService,
             {[tenant_id |-> 1, item_id |-> 12, source_system_id |-> 1,
               external_item_key |-> "SQ-ITEM-1"]})

Spec == Init /\ [][Next]_vars

\* ------------------------------------------------ business-day properties

\* The location row and cutover that a completed business-day request of
\* the sequential specification was answered with.
\* The committed BusinessDay rows of a (tenant, location, business_date).
BusinessDaysOfTriple(tenant_id, location_id, business_date) ==
    {d \in businessDays : /\ d.tenant_id = tenant_id
                          /\ d.location_id = location_id
                          /\ d.business_date = business_date}

LastLocation == CHOOSE l \in LocationRows : l.id = last.args.location_id
LastCutovers == CutoverChoices(last.args.tenant_id, last.args.location_id)

\* C4: resolve_business_day called twice in a row with the same tenant,
\* location and instant returns the same business_day_id and the same
\* starts_at and ends_at, and the second call creates no BusinessDay row.
C4_ResolveIdempotent ==
    (last.op = "resolve" /\ last.status = 200 /\ last.repeat) =>
        /\ last.data.business_day_id = last.prev.business_day_id
        /\ last.data.starts_at = last.prev.starts_at
        /\ last.data.ends_at = last.prev.ends_at
        /\ ~last.data.created
        /\ Cardinality(BusinessDaysOfTriple(last.args.tenant_id, last.args.location_id,
                                    last.data.business_date)) = 1

C4_Witness ==
    /\ last.op = "resolve" /\ last.status = 200 /\ last.repeat
    /\ last.data.business_day_id = last.prev.business_day_id
    /\ last.prev.created

C6_ResolveCutoverBoundary ==
    (last.op = "resolve" /\ last.status = 200) =>
        LET local_at == AsTimezone(last.args.at, LastLocation.timezone)
            d == last.data.business_date
        IN  /\ \E c \in LastCutovers :
                 /\ d * SecondsPerDay + c <= local_at
                 /\ local_at < (d + 1) * SecondsPerDay + c
                 /\ d = IF TimeOf(local_at) >= c THEN DateOf(local_at)
                                                 ELSE DateOf(local_at) - 1
            /\ (/\ last.args.location_id = 1
                /\ {h \in locationHours : h.location_id = 1} = {})
                 => /\ last.args.at = KarachiLocal(1, 4, 59) => d = 0
                    /\ last.args.at = KarachiLocal(1, 5, 0) => d = 1

C6_Witness ==
    /\ last.op = "resolve" /\ last.status = 200
    /\ last.args.location_id = 1
    /\ {h \in locationHours : h.location_id = 1} = {}
    /\ last.args.at = KarachiLocal(1, 4, 59)
    /\ last.data.business_date = 0

\* C7: there is at most one BusinessDay row per (tenant_id, location_id,
\* business_date), under any interleaving of concurrent resolve and ensure
\* calls for the same triple.
C7_UniqueBusinessDayPerTriple ==
    \A a \in businessDays, b \in businessDays :
        (/\ a.tenant_id = b.tenant_id
         /\ a.location_id = b.location_id
         /\ a.business_date = b.business_date) => a = b

\* The request names a location that exists and belongs to its tenant.
LocationOfTenant(tenant_id, location_id) ==
    \E l \in LocationRows : l.id = location_id /\ l.tenant_id = tenant_id

\* C16: a resolve or ensure call answers 404 exactly when the location does
\* not exist or belongs to another tenant, and then it creates no
\* BusinessDay row and leaves every table as it was; every BusinessDay row
\* is for a location of its tenant.
C16_NotFoundLeavesDatabaseUnchanged ==
    [][ ( /\ calls' = calls + 1
          /\ pc' = pc
          /\ last'.op \in {"resolve", "ensure"} )
        => /\ last'.status = 404
              <=> ~ LocationOfTenant(last'.args.tenant_id,
                                     last'.args.location_id)
           /\ last'.status = 404
              => UNCHANGED <<businessDays, locationHours, ledger, tickets,
                             ticketChildren, eventMap, entities,
                             itemExternalKeys, adminState, nextId>>
           /\ \A d \in businessDays' :
                 LocationOfTenant(d.tenant_id, d.location_id) ]_vars

\* With a BusinessDay row in the table, a call for tenant 2 and location 1,
\* a location of tenant 1, has been answered 404.
C16_Witness ==
    /\ last.op \in {"resolve", "ensure"}
    /\ last.status = 404
    /\ last.args.tenant_id = 2 /\ last.args.location_id = 1
    /\ businessDays # {}

\* --------------------------------------------------------- ledger properties

\* The committed LedgerEvent rows with the dedup key of the request `a` and
\* the given source_event_id.
LedgerRowsOfKey(a, source_event_id) ==
    {e \in ledger : /\ e.tenant_id = a.tenant_id
                    /\ e.location_id = a.location_id
                    /\ e.feed_type = a.feed_type
                    /\ e.domain = a.domain
                    /\ e.source_event_id = source_event_id}

\* The positions of the events of a batch that carry a source_event_id.
Identified(events) ==
    {i \in DOMAIN events : /\ "source_event_id" \in DOMAIN events[i]
                           /\ events[i].source_event_id # ""}

\* No source_event_id occurs twice in the batch.
DistinctIds(events) ==
    \A i \in Identified(events), j \in Identified(events) :
        events[i].source_event_id = events[j].source_event_id => i = j

\* C2: a ledger append call whose events each carry a source_event_id of
\* their own returns its summary, and of two such calls made one after the
\* other with the same tenant, location, feed type, domain and events the
\* second inserts nothing and dedupes every identified event; when the
\* first inserted them all, inserted and deduped summed over the two calls
\* both equal the number of identified events (1 and 1 for one event), and
\* exactly one LedgerEvent row exists per dedup key.
C2_LedgerAppendTwice ==
    ( /\ last.op = "ledger" /\ last.status \notin {0, 422}
      /\ DistinctIds(last.args.events) ) =>
        /\ last.status = 200
        /\ last.repeat =>
            LET n == Cardinality(Identified(last.args.events))
            IN  /\ last.data.inserted = 0
                /\ last.data.deduped = n
                /\ last.data.created = {}
                /\ last.prev.inserted = n =>
                     /\ last.prev.inserted + last.data.inserted = n
                     /\ last.prev.deduped + last.data.deduped = n
                     /\ \A i \in Identified(last.args.events) :
                          Cardinality(LedgerRowsOfKey(last.args,
                              last.args.events[i].source_event_id)) = 1

\* C3: in a ledger append batch every event without a source_event_id adds
\* one "missing_source_event_id" entry to errors and is skipped; the other
\* events are processed and persisted; inserted + deduped + len(errors) is the
\* number of events, and the call persists exactly `inserted` rows.
C3_MissingIdSkippedBatchContinues ==
    (last.op = "ledger" /\ last.status # 0) =>
        LET events == last.args.events
            d == last.data
        IN  /\ last.status = 200
            /\ d.inserted + d.deduped + Len(d.errors) = Len(events)
            /\ Len(d.errors) = Len(events) - Cardinality(Identified(events))
            /\ \A k \in DOMAIN d.errors : d.errors[k] = "missing_source_event_id"
            /\ \A i \in Identified(events) :
                 LedgerRowsOfKey(last.args, events[i].source_event_id) # {}
            /\ Cardinality(d.created) = d.inserted
            /\ d.created \subseteq {e.id : e \in ledger}
            /\ \A e \in ledger : e.source_event_id # ""
            /\ (events = <<Event("E1"), Event(""), Event("E2")>> /\ d.deduped = 0)
                 => d.inserted = 2 /\ d.errors = <<"missing_source_event_id">>

TicketMapRowsOfKey(a, source_event_id) ==
    {m \in eventMap : /\ m.tenant_id = a.tenant_id
                      /\ m.source_system_id = a.source_system_id
                      /\ m.source_event_id = source_event_id
                      /\ m.entity_type = "ticket"}

\* The committed child rows of a kind that reference the ticket.
ChildrenOfTicket(ticket_id, table) ==
    {c \in ticketChildren : c.table = table /\ c.ticket_id = ticket_id}

\* The committed rows written by the transaction of call number n.
RowsOfTxn(n) == {x \in tickets \cup ticketChildren \cup eventMap : x.txn = n}

\* C1: the first bulk upsert of a ticket on an empty database returns
\* UPSERTED with a positive ticket_id; a committed bulk upsert that repeats
\* the committed call made just before it returns, for every ticket the
\* first call UPSERTED, UPDATED with the same ticket_id and writes no row;
\* then exactly one Ticket row is mapped under the ticket's key and it has
\* exactly one child row for every child submitted, of each of the five kinds.
C1_TicketUpsertTwice ==
    last.op = "tickets" /\ last.status = 200 =>
        \A i \in DOMAIN last.args.tickets :
            LET p == last.args.tickets[i]
                res == last.data.results[i]
                maps == TicketMapRowsOfKey(last.args, p.source_event_id)
            IN  /\ Len(last.data.results) = Len(last.args.tickets)
                /\ res.source_event_id = p.source_event_id
                /\ ( /\ last.data.txn = 1
                     /\ \A j \in 1..(i - 1) :
                          last.args.tickets[j].source_event_id
                              # p.source_event_id )
                   => res.upsert_status = "UPSERTED" /\ res.ticket_id > 0
                /\ last.repeat /\ last.prev.results[i].upsert_status = "UPSERTED"
                   => /\ res.upsert_status = "UPDATED"
                      /\ res.ticket_id = last.prev.results[i].ticket_id
                      /\ res.ticket_id > 0
                      /\ RowsOfTxn(last.data.txn) = {}
                      /\ Cardinality(maps) = 1
                      /\ {m.entity_id : m \in maps} = {res.ticket_id}
                      /\ Cardinality({t \in tickets : t.id = res.ticket_id}) = 1
                      /\ Cardinality({t \in tickets :
                             t.txn = last.prev.txn /\ t.id = res.ticket_id}) = 1
                      /\ Cardinality(ChildrenOfTicket(res.ticket_id,
                             "ticket_line_item")) = Len(p.line_items)
                      /\ Cardinality(ChildrenOfTicket(res.ticket_id,
                             "ticket_payment")) = Len(p.payments)
                      /\ Cardinality(ChildrenOfTicket(res.ticket_id,
                             "ticket_discount")) = Len(p.discounts)
                      /\ Cardinality(ChildrenOfTicket(res.ticket_id,
                             "ticket_void")) = Len(p.voids)
                      /\ Cardinality(ChildrenOfTicket(res.ticket_id,
                             "ticket_refund")) = Len(p.refunds)

\* T-1, with one child of every kind, has been upserted twice in a row.
C1_Witness ==
    /\ last.op = "tickets" /\ last.status = 200 /\ last.repeat
    /\ last.args.tickets = <<TicketT1>>
    /\ last.prev.results[1].upsert_status = "UPSERTED"
    /\ last.data.results[1].upsert_status = "UPDATED"
    /\ Cardinality(ticketChildren) = 5

\* C8: no bulk_upsert_tickets call ends in an unhandled unique violation of
\* the dedup-map index on a ticket key that another call's transaction
\* inserted: the call that loses the race gets a normal response.
C8_RaceLoserGetsNormalResponse ==
    ~ ( /\ last.op = "tickets"
        /\ last.status = 500
        /\ last.data.error = "IntegrityError"
        /\ last.data.row.entity_type = "ticket"
        /\ ~ last.data.own )

\* C9: in every committed state every Ticket row has a dedup-map row of
\* entity_type "ticket" pointing at it, every ticket child row references a
\* committed Ticket row and has a dedup-map row of its own kind, and the rows
\* of a bulk upsert are committed all together or not at all: none while it
\* runs, none after it crashed or failed, one Ticket row per accepted ticket
\* after it returned.
C9_CommittedTicketsAtomic ==
    /\ \A t \in tickets :
          \E m \in eventMap : /\ m.entity_type = "ticket"
                              /\ m.entity_id = t.id
                              /\ m.tenant_id = t.tenant_id
    /\ \A c \in ticketChildren :
          /\ \E t \in tickets : t.id = c.ticket_id
          /\ \E m \in eventMap : /\ m.entity_type = c.table
                                 /\ m.entity_id = c.id
    /\ \A w \in Workers :
          pc[w] # "idle" /\ req[w].op = "tickets" => RowsOfTxn(req[w].txn) = {}
    /\ last.op = "tickets" =>
          IF last.status = 200
          THEN Cardinality({t \in tickets : t.txn = last.data.txn})
                  = last.data.accepted
          ELSE RowsOfTxn(last.data.txn) = {}

\* The only call made so far died after it had flushed a ticket, its line
\* item and its payment: nothing of it is in the database.
C9_Witness ==
    /\ calls = 1
    /\ last.op = "tickets" /\ last.status = 0
    /\ nextId["ticket_payment"] > 1
    /\ tickets = {} /\ ticketChildren = {} /\ eventMap = {}

\* The committed row of a table with the given id.
ChildRows(table, id) == {c \in ticketChildren : c.table = table /\ c.id = id}

\* The line item has an external key and no item id, and no ItemExternalKey
\* row exists for (tenant, source system, key).
UnmappedLine(a, line) ==
    /\ line.item_id = NoId
    /\ line.external_item_key # ""
    /\ ~ \E k \in itemExternalKeys :
            /\ k.tenant_id = a.tenant_id
            /\ k.source_system_id = a.source_system_id
            /\ k.external_item_key = line.external_item_key

\* C11: a line item whose external_item_key has no ItemExternalKey row is
\* still created: its ticket is reported UPSERTED, the resolved line item
\* has item_id null and mapping_status "UNMAPPED", the ticket's warnings
\* contain "item_not_mapped", the committed TicketLineItem row has item_id
\* null, and the call is not failed by it.
C11_UnmappedItemStillCreated ==
    last.op = "tickets" =>
        /\ ( /\ last.args.tickets = <<TicketT5>>
             /\ last.data.txn = 1 ) => last.status # 500
        /\ last.status = 200 =>
             \A i \in DOMAIN last.args.tickets :
                LET p == last.args.tickets[i]
                    res == last.data.results[i]
                IN  res.upsert_status = "UPSERTED" =>
                      \A k \in DOMAIN p.line_items :
                         UnmappedLine(last.args, p.line_items[k]) =>
                            LET rl == res.resolved.line_items[k]
                                rows == ChildRows("ticket_line_item",
                                                  rl.ticket_line_item_id)
                            IN  /\ rl.source_event_id
                                     = p.line_items[k].source_event_id
                                /\ rl.item_id = NoId
                                /\ rl.mapping_status = "UNMAPPED"
                                /\ \E n \in DOMAIN res.warnings :
                                      res.warnings[n] = "item_not_mapped"
                                /\ Cardinality(rows) = 1
                                /\ \A c \in rows : /\ c.item_id = NoId
                                                   /\ c.ticket_id = res.ticket_id

\* T-5, whose line item has the unmapped key SQ-ITEM-9, has been upserted.
C11_Witness ==
    /\ last.op = "tickets" /\ last.status = 200
    /\ last.args.tickets = <<TicketT5>>
    /\ last.data.results[1].upsert_status = "UPSERTED"
    /\ last.data.results[1].resolved.line_items[1].mapping_status = "UNMAPPED"
    /\ Cardinality(ChildRows("ticket_line_item",
          last.data.results[1].resolved.line_items[1].ticket_line_item_id)) = 1

\* The channel block names a (provider, source_channel_code) for which the
\* tenant of the request has no ChannelMapping row.
UnmappedChannel(a, channel) ==
    /\ channel # NoData
    /\ ~ \E c \in ChannelMappingRows :
            /\ c.tenant_id = a.tenant_id
            /\ c.provider = channel.provider
            /\ c.source_channel_code = channel.source_channel_code

\* C12: a ticket whose channel block has no ChannelMapping row is still
\* created, with channel_id null, reported UPSERTED and warned
\* "channel_not_mapped", and the call is not failed by it; a ticket without
\* a channel block gets channel_id null and no such warning.
C12_UnmappedChannelStillCreated ==
    last.op = "tickets" =>
        /\ ( /\ last.args.tickets = <<TicketT4>>
             /\ last.data.txn = 1 ) => last.status # 500
        /\ last.status = 200 =>
             \A i \in DOMAIN last.args.tickets :
                LET p == last.args.tickets[i]
                    res == last.data.results[i]
                    rows == {t \in tickets : t.id = res.ticket_id}
                    warned == \E n \in DOMAIN res.warnings :
                                 res.warnings[n] = "channel_not_mapped"
                IN  res.upsert_status = "UPSERTED" =>
                      /\ Cardinality(rows) = 1
                      /\ UnmappedChannel(last.args, p.channel) =>
                            /\ res.resolved.channel_id = NoId
                            /\ warned
                            /\ \A t \in rows : t.channel_id = NoId
                      /\ p.channel = NoData =>
                            /\ res.resolved.channel_id = NoId
                            /\ ~ warned
                            /\ \A t \in rows : t.channel_id = NoId

\* T-4, whose channel code TOGO is not mapped, has been upserted.
C12_Witness ==
    /\ last.op = "tickets" /\ last.status = 200
    /\ last.args.tickets = <<TicketT4>>
    /\ last.data.results[1].upsert_status = "UPSERTED"
    /\ last.data.results[1].warnings = <<"channel_not_mapped">>
    /\ \E t \in tickets : t.id = last.data.results[1].ticket_id

\* The committed LedgerEvent rows written by the transaction of call n.
LedgerRowsOfTxn(n) == {e \in ledger : e.txn = n}

C14_TicketTenantIsolation ==
    /\ \A t \in tickets :
          /\ \A l \in GetLocation(t.location_id) : l.tenant_id = t.tenant_id
          /\ \A d \in businessDays :
                d.id = t.business_day_id => d.tenant_id = t.tenant_id
          /\ \A c \in ChannelMappingRows :
                c.id = t.channel_id => c.tenant_id = t.tenant_id
    /\ \A c \in ticketChildren :
          /\ \A t \in tickets : t.id = c.ticket_id => t.tenant_id = c.tenant_id
          /\ \A k \in itemExternalKeys :
                k.item_id = c.item_id => k.tenant_id = c.tenant_id
    /\ \A m \in eventMap :
          \A t \in tickets :
             m.entity_type = "ticket" /\ m.entity_id = t.id
                => m.tenant_id = t.tenant_id

\* The ticket ids of the UPSERTED results of a response.
UpsertedIds(data) ==
    {data.results[i].ticket_id :
        i \in {n \in DOMAIN data.results :
                  data.results[n].upsert_status = "UPSERTED"}}

\* C17: when the dedup lookup of a ticket finds a committed "ticket" map
\* entry, the handler reports the ticket UPDATED with the entry's entity_id
\* as ticket_id and writes nothing for it, whatever the payload holds: the
\* committed tables are unchanged and no row is added to its transaction.
\* The rows a call commits all belong to the tickets it reported UPSERTED,
\* and the rows committed before stay as they are.
C17_ResubmitIsNoOp ==
    [][ /\ \A w \in Workers :
            ( /\ pc[w] = "tk_lookup" /\ pc'[w] # "idle"
              /\ lv[w].i <= Len(req[w].tickets)
              /\ lv'[w] # lv[w]
              /\ TicketMapRowsOfKey(req[w],
                    req[w].tickets[lv[w].i].source_event_id) # {} )
            => LET res == lv'[w].results[Len(lv'[w].results)]
               IN  /\ pc'[w] = "tk_lookup"
                   /\ Len(lv'[w].results) = Len(lv[w].results) + 1
                   /\ lv'[w].updated = lv[w].updated + 1
                   /\ lv'[w].accepted = lv[w].accepted
                   /\ res.upsert_status = "UPDATED"
                   /\ res.ticket_id \in
                        {m.entity_id : m \in TicketMapRowsOfKey(req[w],
                            req[w].tickets[lv[w].i].source_event_id)}
                   /\ UNCHANGED <<tickets, ticketChildren, eventMap>>
                   /\ Cardinality(uncommitted'[w]) + Len(pending'[w])
                        = Cardinality(uncommitted[w]) + Len(pending[w])
        /\ tickets \subseteq tickets'
        /\ ticketChildren \subseteq ticketChildren'
        /\ eventMap \subseteq eventMap'
        /\ <<tickets, ticketChildren, eventMap>>'
              # <<tickets, ticketChildren, eventMap>>
            => /\ last'.op = "tickets" /\ last'.status = 200
               /\ \A t \in tickets' \ tickets :
                     t.id \in UpsertedIds(last'.data)
               /\ \A c \in ticketChildren' \ ticketChildren :
                     c.ticket_id \in UpsertedIds(last'.data)
               /\ \A m \in eventMap' \ eventMap :
                     m.entity_type = "ticket"
                        => m.entity_id \in UpsertedIds(last'.data) ]_vars

\* T-1 was upserted with its five children as a closed ticket and has then
\* been submitted again as an open ticket without children: the answer is
\* UPDATED and the ticket and its children are as they were.
C17_Witness ==
    /\ last.op = "tickets" /\ last.status = 200
    /\ last.args.tickets = <<TicketT1Reopened>>
    /\ last.data.results[1].upsert_status = "UPDATED"
    /\ \E t \in tickets : /\ t.id = last.data.results[1].ticket_id
                          /\ t.status = "CLOSED"
    /\ Cardinality({c \in ticketChildren :
          c.ticket_id = last.data.results[1].ticket_id}) = 5

\* C18: a bulk upsert never fails on the source_event_id of a line item that
\* already has a "ticket_line_item" dedup-map entry for the tenant and
\* source system: the line item is skipped as a duplicate and the call
\* completes; every line-item key has one map row and one TicketLineItem.
C18_LineItemDedupedIndependently ==
    /\ ~ ( /\ last.op = "tickets"
           /\ last.status = 500
           /\ last.data.error = "IntegrityError"
           /\ last.data.row.entity_type = "ticket_line_item" )
    /\ \A m \in eventMap, n \in eventMap :
          m.entity_type = "ticket_line_item" /\ MapKey(m) = MapKey(n) => m = n

\* ------------------------------------------------ item external key claims

\* C20: after any sequence of create_item_external_key calls, each
\* (tenant_id, source_system_id, external_item_key) maps to at most one
\* item_id: two ItemExternalKey rows that agree on the three columns agree on
\* item_id, so the lookup of a ticket line item finds at most one item.
C20_ExternalKeyMapsToOneItem ==
    \A k1 \in itemExternalKeys, k2 \in itemExternalKeys :
       ( /\ k1.tenant_id = k2.tenant_id
         /\ k1.source_system_id = k2.source_system_id
         /\ k1.external_item_key = k2.external_item_key )
       => k1.item_id = k2.item_id

\* ------------------------------------------------ structured upsert claims

\* The committed IngestionEventMap rows of the endpoint's entity_type for
\* (tenant, source system, source_event_id).
StructuredMapRows(a, source_event_id) ==
    {m \in eventMap : /\ m.tenant_id = a.tenant_id
                      /\ m.source_system_id = a.source_system_id
                      /\ m.source_event_id = source_event_id
                      /\ m.entity_type = a.endpoint}

\* The positions of the batch that hold a valid event (a labor punch needs
\* an employee).
ValidPositions(a) ==
    {i \in 1..Len(a.events) :
        ~ (a.endpoint = "labor_punch" /\ ResolveEmployee(a, a.events[i]) = {NoId})}

\* C19: a structured bulk upsert that was answered succeeded, and for each
\* valid event of its batch there is exactly one IngestionEventMap row of
\* the endpoint's entity_type and exactly one entity row it points to, made
\* in the same transaction; the events first submitted in this request are
\* counted accepted and are the only rows this request created, every
\* other valid event is counted updated.
C19_StructuredUpsertOnce ==
    (last.op = "structured" /\ last.status # 0)
    => LET a == last.args
           valid == ValidPositions(a)
           created == {a.events[i].source_event_id : i \in
                         {j \in valid :
                            \E m \in StructuredMapRows(a,
                                        a.events[j].source_event_id) :
                               m.txn = last.data.txn}}
       IN  /\ last.status = 200
           /\ \A i \in valid :
                 LET maps == StructuredMapRows(a, a.events[i].source_event_id)
                 IN  /\ Cardinality(maps) = 1
                     /\ \A m \in maps :
                           Cardinality({x \in entities :
                                          /\ x.table = a.endpoint
                                          /\ x.id = m.entity_id
                                          /\ x.txn = m.txn}) = 1
           /\ Cardinality({x \in entities : x.txn = last.data.txn})
                 = Cardinality(created)
           /\ last.data.accepted = Cardinality(created)
           /\ last.data.updated = Cardinality(valid) - Cardinality(created)

\* --------------------------------------------------- append-only tables

\* C15: BusinessDay, LedgerEvent and IngestionEventMap rows are never
\* deleted and never changed: every step of every operation of the service
\* (resolve, ensure, ledger append, ticket and structured bulk upserts,
\* location-hours upsert, item-key creation) leaves each row of the three
\* tables in its table with all its field values; rows may only be added.
C15_AppendOnlyTables ==
    [][ /\ businessDays \subseteq businessDays'
        /\ ledger \subseteq ledger'
        /\ eventMap \subseteq eventMap' ]_vars

\* A BusinessDay row exists beside IngestionEventMap rows that a ticket
\* upsert and a payout upsert committed in two transactions: operations
\* have run on tables that held rows.
C15_Witness ==
    /\ \E m1 \in eventMap, m2 \in eventMap :
          /\ m1.entity_type = "ticket" /\ m2.entity_type = "payout"
          /\ m1.txn # m2.txn

\* ------------------------------------------------------ ledger event time

\* The field is present in the event and not null.
HasTime(payload, key) == key \in DOMAIN payload /\ payload[key] # NoTime

\* The order in which the fields after event_time are preferred.
C21_Precedence ==
    <<"closed_at", "opened_at", "paid_at", "applied_at", "voided_at",
      "refunded_at", "occurred_at">>

\* C21: the occurred_at computed for a ledger event is its event_time when
\* that field is present and non-null; otherwise the value of the first
\* present, non-null field in the order closed_at, opened_at, paid_at,
\* applied_at, voided_at, refunded_at, occurred_at; otherwise the server's
\* current time.
C21_LedgerEventTimePrecedence ==
    last.op = "ledger_event_time"
    => LET payload == last.args.payload
           at == last.data.occurred_at
       IN  /\ HasTime(payload, "event_time") => at = payload["event_time"]
           /\ ~ HasTime(payload, "event_time") =>
                /\ \A i \in DOMAIN C21_Precedence :
                      ( /\ HasTime(payload, C21_Precedence[i])
                        /\ \A j \in 1..(i - 1) :
                              ~ HasTime(payload, C21_Precedence[j]) )
                      => at = payload[C21_Precedence[i]]
                /\ (\A i \in DOMAIN C21_Precedence :
                       ~ HasTime(payload, C21_Precedence[i]))
                   => at = last.args.now

\* An event whose event_time is null, whose closed_at is absent and whose
\* paid_at and occurred_at are both set was given its paid_at.
C21_Witness ==
    /\ last.op = "ledger_event_time"
    /\ "event_time" \in DOMAIN last.args.payload
    /\ last.args.payload["event_time"] = NoTime
    /\ "closed_at" \notin DOMAIN last.args.payload
    /\ ~ HasTime(last.args.payload, "opened_at")
    /\ HasTime(last.args.payload, "paid_at")
    /\ HasTime(last.args.payload, "occurred_at")
    /\ last.data.occurred_at = last.args.payload["paid_at"]

\* ------------------------------------------------- independent keyspaces

\* The operation that a step of worker w belongs to, by the handler position
\* before or after the step.
StepIsLedger(w) == pc[w] = "ledger_loop" \/ pc'[w] = "ledger_loop"
StepIsUpsert(w) ==
    \/ pc[w] \in {"tk_lookup", "tk_create", "tk_child", "st_loop"}
    \/ pc'[w] \in {"tk_lookup", "tk_create", "tk_child", "st_loop"}

\* The committed IngestionEventMap rows of entity_type `entity_type` for
\* the key of a request with arguments a.
MapRowsOfType(a, source_event_id, entity_type) ==
    {m \in eventMap : /\ m.tenant_id = a.tenant_id
                      /\ m.source_system_id = a.source_system_id
                      /\ m.source_event_id = source_event_id
                      /\ m.entity_type = entity_type}

C23_CreateAssetChecksLocation ==
    [][ ( /\ calls' = calls + 1
          /\ last'.op = "asset" )
        => /\ last'.status \in {200, 400}
           /\ last'.status = 200
              <=> LocationOfTenant(last'.args.tenant_id,
                                   last'.args.location_id)
           /\ last'.status = 200
              => /\ last'.data.asset_id > 0
                 /\ last'.data.location_id = last'.args.location_id
                 /\ \E a \in assets' \ assets :
                       /\ a.id = last'.data.asset_id
                       /\ a.tenant_id = last'.args.tenant_id
                       /\ a.location_id = last'.args.location_id
                 /\ Cardinality(assets' \ assets) = 1
           /\ last'.status = 400 => UNCHANGED <<assets, nextId>> ]_vars

\* With an Asset row in the table, a request that names location 1 (of
\* tenant 1) for tenant 2 has been answered 400.
C23_Witness ==
    /\ assets # {}
    /\ last.op = "asset" /\ last.status = 400
    /\ last.args.tenant_id = 2 /\ last.args.location_id = 1

\* ---------------------------------------------------- source system claims

\* The SourceSystem rows that equal every filter supplied.
RowsMatching(filter) ==
    {r \in sourceSystems : \A k \in DOMAIN filter : r[k] = filter[k]}

\* The rows a list request may return: the matching rows, after its cursor
\* when it has one.
RowsEligible(a) ==
    IF a.cursor = <<>> THEN RowsMatching(a.filter)
    ELSE {r \in RowsMatching(a.filter) : r.id > a.cursor[1]}

ReturnedIds(data) == {data[i].source_system_id : i \in DOMAIN data}

\* Every entry of a list response shows the fields of the row with its id.
EntriesShowRows(data) ==
    \A i \in DOMAIN data :
       \E r \in sourceSystems :
          /\ r.id = data[i].source_system_id
          /\ r.name = data[i].name
          /\ r.tenant_id = data[i].tenant_id
          /\ r.system_type = data[i].system_type
          /\ r.provider = data[i].provider
          /\ r.is_active = data[i].is_active

\* C24 (as stated): list_source_systems returns exactly the SourceSystem
\* rows that equal every supplied filter, each with the name it was created
\* with.
C24_ListReturnsExactlyMatchingRows ==
    last.op = "list_source_systems"
    => /\ ReturnedIds(last.data.data)
             = {r.id : r \in RowsMatching(last.args.filter)}
       /\ EntriesShowRows(last.data.data)

\* C24 (as amended): list_source_systems returns one page: the first
\* `limit` rows, in increasing id order, of the rows that equal every
\* supplied filter and lie after the cursor; rows that fail a filter never
\* appear, every entry shows the fields its row was created with, and when
\* no cursor is given and at most `limit` rows match, the page is exactly
\* the matching rows.
C24_ListReturnsMatchingPage ==
    last.op = "list_source_systems"
    => LET a == last.args
           data == last.data.data
           eligible == RowsEligible(a)
       IN  /\ ReturnedIds(data) \subseteq {r.id : r \in eligible}
           /\ EntriesShowRows(data)
           /\ \A i \in DOMAIN data, j \in DOMAIN data :
                 i < j => data[i].source_system_id < data[j].source_system_id
           /\ Len(data) = IF Cardinality(eligible) < a.limit
                          THEN Cardinality(eligible) ELSE a.limit
           /\ \A r \in eligible :
                 r.id \notin ReturnedIds(data)
                 => \A id \in ReturnedIds(data) : id < r.id
           /\ (a.cursor = <<>> /\ Cardinality(RowsMatching(a.filter)) <= a.limit)
              => ReturnedIds(data) = {r.id : r \in RowsMatching(a.filter)}

\* A list filtered by tenant_id = 1 and is_active = true returned a row of
\* tenant 1 while the table also held a row that fails a filter.
C24_Witness ==
    /\ last.op = "list_source_systems"
    /\ last.args.filter = [tenant_id |-> 1, is_active |-> TRUE]
    /\ last.args.cursor = <<>>
    /\ last.data.data # <<>>
    /\ sourceSystems \ RowsMatching(last.args.filter) # {}

\* C25: a client that starts with no cursor and follows meta.page.cursor
\* until it is null receives every matching row exactly once, in strictly
\* increasing id order, and is done after finitely many requests: it never
\* needs more requests than one per matching row and one more.
C25_PagerVisitsEachRowOnce ==
    pager.active
    => /\ \A i \in DOMAIN pager.received, j \in DOMAIN pager.received :
             i < j => pager.received[i] < pager.received[j]
       /\ pager.done
          => {pager.received[i] : i \in DOMAIN pager.received}
                = {r.id : r \in RowsMatching(pager.filter)}
       /\ pager.requests <= Cardinality(RowsMatching(pager.filter)) + 1
       /\ pager.requests = Cardinality(RowsMatching(pager.filter)) + 1
          => pager.done

\* ------------------------------------------------- business-day bounds drift

\* C26: resolve_business_day and ensure_business_day return the starts_at
\* and ends_at stored on the BusinessDay row whose id they return, also when
\* upsert_location_hours changed the location's cutover after the row was
\* created.
C26_ResponseBoundsAreStoredBounds ==
    (last.op \in {"resolve", "ensure"} /\ last.status = 200)
    => \E d \in businessDays :
          /\ d.id = last.data.business_day_id
          /\ d.starts_at = InstantOf(last.data.starts_at)
          /\ d.ends_at = InstantOf(last.data.ends_at)

\* ------------------------------------------ one ticket twice in one batch

\* The answered call carried two tickets with one source_event_id, and no
\* dedup-map entry for it was committed by an earlier call.
RepeatedNewTicket ==
    /\ last.op = "tickets"
    /\ last.status # 0
    /\ Len(last.args.tickets) = 2
    /\ last.args.tickets[1].source_event_id = last.args.tickets[2].source_event_id
    /\ \A m \in TicketMappings(eventMap, last.args,
                               last.args.tickets[1].source_event_id) :
          m.txn = last.data.txn

\* C27: a bulk_upsert_tickets batch with two tickets of one new
\* source_event_id completes, creates exactly one Ticket row, and reports the
\* first occurrence UPSERTED and the second UPDATED with the same ticket_id.
C27_RepeatedTicketInBatchUpsertedOnce ==
    RepeatedNewTicket
    => /\ last.status = 200
       /\ Cardinality({t \in tickets : t.txn = last.data.txn}) = 1
       /\ Len(last.data.results) = 2
       /\ last.data.results[1].upsert_status = "UPSERTED"
       /\ last.data.results[2].upsert_status = "UPDATED"
       /\ last.data.results[2].ticket_id = last.data.results[1].ticket_id

\* ------------------------------------------------ ticket upsert accounting

\* C28: a bulk_upsert_tickets call that returns has accepted + updated +
\* rejected = number of submitted tickets with rejected = 0, one results entry
\* per ticket in request order with the ticket's source_event_id and status
\* UPSERTED or UPDATED, and accepted = number of Ticket rows it created.
C28_TicketCountsMatchRequest ==
    (last.op = "tickets" /\ last.status = 200)
    => LET d == last.data
           submitted == last.args.tickets
       IN  /\ d.accepted + d.updated + d.rejected = Len(submitted)
           /\ d.rejected = 0
           /\ Len(d.results) = Len(submitted)
           /\ \A i \in 1..Len(submitted) :
                 /\ d.results[i].source_event_id = submitted[i].source_event_id
                 /\ d.results[i].upsert_status \in {"UPSERTED", "UPDATED"}
           /\ d.accepted = Cardinality({t \in tickets : t.txn = d.txn})
           /\ d.accepted = Cardinality({i \in 1..Len(submitted) :
                                d.results[i].upsert_status = "UPSERTED"})

\* A returned call that created one ticket and found the other one mapped.
C28_Witness ==
    /\ last.op = "tickets"
    /\ last.status = 200
    /\ Len(last.args.tickets) = 2
    /\ last.data.accepted = 1
    /\ last.data.updated = 1
    /\ Cardinality({t \in tickets : t.txn = last.data.txn}) = 1

\* --------------------------------------------- resolve and ensure agree

\* The business_date a business-day response is about.
DayOfResponse(r) == r.data.business_date

\* Response `b` follows response `a`, one is a resolve and the other an
\* ensure of the same tenant and location, both answered 200, and the ensure
\* asked for the business_date the resolve derived.  No request lies between
\* the two, so the location's cutover is the same for both.
ResolveEnsurePair(a, b) ==
    /\ a # b
    /\ {a.op, b.op} = {"resolve", "ensure"}
    /\ a.status = 200
    /\ b.status = 200
    /\ a.args.tenant_id = b.args.tenant_id
    /\ a.args.location_id = b.args.location_id
    /\ DayOfResponse(a) = DayOfResponse(b)

SameBusinessDay(a, b) ==
    /\ a.data.business_day_id = b.data.business_day_id
    /\ a.data.business_date = b.data.business_date
    /\ a.data.starts_at = b.data.starts_at
    /\ a.data.ends_at = b.data.ends_at

ResolveEnsureAgree ==
    ResolveEnsurePair(last, last') => SameBusinessDay(last, last')

\* The instant of an answered resolve lies in the returned day, taken as the
\* 24 hours from starts_at, or as the time from starts_at to ends_at.
ResolvedInstantWithin24h ==
    (last.op = "resolve" /\ last.status = 200)
    => /\ InstantOf(last.data.starts_at) <= last.args.at
       /\ last.args.at < InstantOf(last.data.starts_at) + SecondsPerDay

ResolvedInstantWithinBounds ==
    (last.op = "resolve" /\ last.status = 200)
    => /\ InstantOf(last.data.starts_at) <= last.args.at
       /\ last.args.at < InstantOf(last.data.ends_at) + 1

EmployeeUnresolvable(r, punch) ==
    /\ punch.employee_id = NoId
    /\ ~ \E e \in EmployeeRows : /\ e.tenant_id = r.tenant_id
                                 /\ e.location_id = r.location_id
                                 /\ e.external_key = punch.employee_external_key

\* The labor-punch handler of w1 is about to handle a punch with a new
\* source_event_id whose employee cannot be resolved.
AtUnresolvablePunch ==
    /\ pc["w1"] = "st_loop"
    /\ req["w1"].endpoint = "labor_punch"
    /\ lv["w1"].i <= Len(req["w1"].events)
    /\ LET r == req["w1"]
           punch == r.events[lv["w1"].i]
       IN  /\ EmployeeUnresolvable(r, punch)
           /\ ~ \E m \in eventMap \cup uncommitted["w1"] :
                  /\ m.table = "ingestion_event_map"
                  /\ MapKey(m) = <<r.tenant_id, r.source_system_id,
                                   punch.source_event_id, "labor_punch">>
           /\ ~ \E k \in 1..Len(pending["w1"]) :
                  /\ pending["w1"][k].table = "ingestion_event_map"
                  /\ MapKey(pending["w1"][k])
                        = <<r.tenant_id, r.source_system_id,
                            punch.source_event_id, "labor_punch">>

\* The process did not die in this step.
NoCrashStep == last' # last => last'.status # 0

\* The punch is counted rejected and nothing else: no row, no results
\* entry, and the loop stands at the next punch.
PunchRejected ==
    /\ pc'["w1"] = "st_loop"
    /\ last' = last
    /\ lv'["w1"] = [lv["w1"] EXCEPT !.i = @ + 1, !.rejected = @ + 1]
    /\ Len(pending'["w1"]) + Cardinality(uncommitted'["w1"])
          = Len(pending["w1"]) + Cardinality(uncommitted["w1"])
    /\ UNCHANGED <<entities, eventMap>>

\* A labor-punch call that returned counted every punch once, gave one
\* results entry per accepted or updated punch, and left one LaborPunch row
\* per accepted punch.
LaborPunchCountsAddUp ==
    (last.op = "structured" /\ last.status = 200
        /\ last.args.endpoint = "labor_punch")
    => /\ last.data.accepted + last.data.updated + last.data.rejected
             = Len(last.args.events)
       /\ Len(last.data.results) = last.data.accepted + last.data.updated
       /\ Cardinality({x \in entities : x.txn = last.data.txn})
             = last.data.accepted
       /\ \A i \in 1..Len(last.args.events) :
             EmployeeUnresolvable(last.args, last.args.events[i])
             => /\ \A k \in 1..Len(last.data.results) :
                      last.data.results[k].source_event_id
                         # last.args.events[i].source_event_id
                /\ ~ \E m \in eventMap :
                       /\ m.entity_type = "labor_punch"
                       /\ m.tenant_id = last.args.tenant_id
                       /\ m.source_event_id = last.args.events[i].source_event_id

\* C30: in bulk_upsert_labor_punches a punch with a new source_event_id
\* whose employee cannot be resolved is counted rejected, creates no
\* LaborPunch row and no IngestionEventMap row, gets no results entry and
\* does not stop the remaining punches; for every call that returns,
\* accepted + updated + rejected = number of punches submitted.
C30_UnresolvedPunchRejected ==
    /\ [][(AtUnresolvablePunch /\ NoCrashStep) => PunchRejected]_vars
    /\ []LaborPunchCountsAddUp

\* A returned labor-punch call whose two punches, the second named by an
\* unknown external key, were both rejected.
C30_Witness ==
    /\ last.op = "structured"
    /\ last.status = 200
    /\ last.args.endpoint = "labor_punch"
    /\ Len(last.args.events) = 2
    /\ last.args.events[2].employee_external_key # ""
    /\ EmployeeUnresolvable(last.args, last.args.events[2])
    /\ last.data.rejected = 2
    /\ last.data.results = <<>>
    /\ entities = {}


====
